---- MODULE Spec2Model ----
(***************************************************************************)
(* Model of the forceops deletion engine (src/src/deleter.rs) together     *)
(* with the parts of process.rs, utils.rs and lock_checker.rs it calls.    *)
(* One deleter call runs on a small file system shared with external       *)
(* processes that hold locks, may exit, and may remove entries themselves. *)
(***************************************************************************)
EXTENDS Integers, Sequences, FiniteSets, TLC

\* ------------------------------------------------------------------ bounds
MaxRetriesBound == 2
NumProcs == 2
MaxRecycles == 1

\* ------------------------------------------------------- program constants
ERROR_SHARING_VIOLATION == 32
ERROR_LOCK_VIOLATION == 33

\* ------------------------------------------------------------- file system
NoNode == "-"
\* f: a file; d: a directory holding the file d/a and the directory d/s;
\* l: a link to d; j: a link whose target m does not exist.
Nodes == {"f", "d", "d/a", "d/s", "l", "j", "m"}
Parent == [n \in Nodes |-> CASE n = "d/a" -> "d" [] n = "d/s" -> "d" [] OTHER -> NoNode]
NaturalKind ==
    [n \in Nodes |-> CASE n \in {"f", "d/a"} -> "file"
                       [] n \in {"d", "d/s"} -> "dir"
                       [] n \in {"l", "j"} -> "link"
                       [] OTHER -> "absent"]
\* Where a link at n points: l and j are links from the start; f and d name
\* the target a link has when another actor puts one in their place.
LinkTarget ==
    [n \in Nodes |-> CASE n = "l" -> "d" [] n = "j" -> "m" [] n = "f" -> "d" [] n = "d" -> "f"
                       [] OTHER -> NoNode]
Text ==
    [n \in Nodes |-> CASE n = "f" -> <<"f">>
                       [] n = "d" -> <<"d">>
                       [] n = "d/a" -> <<"d", "/", "a">>
                       [] n = "d/s" -> <<"d", "/", "s">>
                       [] n = "l" -> <<"l">>
                       [] n = "j" -> <<"j">>
                       [] OTHER -> <<"m">>]
EntryOrder == <<"d/a", "d/s">>

\* Process ids: 0 is the system idle process, 1..NumProcs are external
\* processes, SelfPid is std::process::id() of the caller.
IdlePid == 0
SelfPid == NumProcs + 1
ExtPids == 1..NumProcs
LockTargets == {"f", "d", "d/a", "d/s"}

VARIABLES
    max_retries,   \* ForceOpsConfig::max_retries
    fs,            \* node -> "absent" | "file" | "dir" | "link"
    readonly,      \* nodes carrying the read-only attribute
    holding,       \* external pid -> node it keeps open (file handle or working directory)
    alive,         \* external pids still running
    call,          \* the public operation invoked on the deleter
    stack,         \* call stack of the deleter, innermost frame last
    result,        \* Result<()> of the public operation
    done,          \* record of the retry loop that returned last
    acted,         \* TRUE once the call removed, inspected, slept or killed
    own,           \* node the calling process itself keeps open (NoNode if none)
    cli,           \* the command line run by main.rs::run and its progress
    coord,         \* run_with_relaunch_as_elevated: position, counters and outcome
    tmp,           \* the temporary output file forceops_<pid>.tmp
    child,         \* the elevated child process
    channel,       \* lines the coordinator printed to its standard error
    scan,          \* the lock inspection in progress (lock_checker.rs)
    incarnation    \* external pid -> how many times the OS has re-assigned the id

\* State of the command-line layer; the library operations leave it alone.
ctx == <<own, cli, coord, tmp, child, channel, scan, incarnation>>

vars == <<max_retries, fs, readonly, holding, alive, call, stack, result, done, acted, ctx>>

\* ------------------------------------------------------------------ errors
NoErr == [raw |-> -1, kind |-> "none"]
ErrSharing == [raw |-> ERROR_SHARING_VIOLATION, kind |-> "Uncategorized"]
ErrLockViolation == [raw |-> ERROR_LOCK_VIOLATION, kind |-> "Uncategorized"]
ErrAccess == [raw |-> 5, kind |-> "PermissionDenied"]
ErrNotFound == [raw |-> 2, kind |-> "NotFound"]
ErrNotEmpty == [raw |-> 145, kind |-> "DirectoryNotEmpty"]
ErrNotADirectory == [raw |-> 267, kind |-> "NotADirectory"]
ErrBusy == [raw |-> 170, kind |-> "ResourceBusy"]
ErrOther == [raw |-> -1, kind |-> "Other"]
ErrWouldBlock == [raw |-> -1, kind |-> "WouldBlock"]
SpuriousErrors == {ErrAccess, ErrBusy, ErrOther, ErrWouldBlock}

\* Variant of is_io_error that also accepts ErrorKind::ResourceBusy.
is_io_error_WithBusy(e) ==
    \/ e.raw \in {32, 33}
    \/ e.kind \in {"Other", "ResourceBusy"}

is_io_error(e) ==
    \/ e.raw \in {ERROR_SHARING_VIOLATION, ERROR_LOCK_VIOLATION}
    \/ e.kind = "Other"

is_io_or_permission_error(e) ==
    \/ e.kind \in {"PermissionDenied", "WouldBlock"}
    \/ is_io_error(e)

\* Variant of the fast path's test that also accepts ErrorKind::Other.
is_lock_error_AlsoOther(e) == e.raw \in {32, 33} \/ e.kind = "Other"

is_lock_error(e) == e.raw \in {ERROR_SHARING_VIOLATION, ERROR_LOCK_VIOLATION}

\* ----------------------------------------------------------------- results
OkResult == [ok |-> TRUE, tag |-> "ok", err |-> NoErr, what |-> "", path |-> NoNode, retries |-> 0]
IoFailure(e) == [ok |-> FALSE, tag |-> "io", err |-> e, what |-> "", path |-> NoNode, retries |-> 0]
NotFoundFailure(p) ==
    [ok |-> FALSE, tag |-> "notfound", err |-> NoErr, what |-> "", path |-> p, retries |-> 0]
FailedAfterRetries(w, p) ==
    [ok |-> FALSE, tag |-> "exhausted", err |-> NoErr, what |-> w, path |-> p, retries |-> max_retries]
\* The call did not return: the thread panicked.
Panicked == [ok |-> FALSE, tag |-> "panic", err |-> NoErr, what |-> "", path |-> NoNode, retries |-> 0]
NoResult == [ok |-> FALSE, tag |-> "none", err |-> NoErr, what |-> "", path |-> NoNode, retries |-> 0]

\* ------------------------------------------------------ path classification
Deref(p) == IF fs[p] = "link" THEN LinkTarget[p] ELSE p
exists(p) == fs[Deref(p)] # "absent"
is_file(p) == fs[Deref(p)] = "file"
is_dir(p) == fs[Deref(p)] = "dir"
is_symlink(p) == fs[p] = "link"

RECURSIVE IsUnder(_, _)
IsUnder(x, n) == x = n \/ (Parent[x] # NoNode /\ IsUnder(Parent[x], n))
Subtree(n) == {x \in Nodes : IsUnder(x, n)}
Children(f, n) == {x \in Nodes : Parent[x] = n /\ f[x] # "absent"}
Holders(n) == {p \in alive : holding[p] = n} \cup (IF own = n THEN {SelfPid} ELSE {})
Locked(f, n) == {x \in Subtree(n) : f[x] # "absent" /\ Holders(x) # {}}
Removed(f, S) == [x \in Nodes |-> IF x \in S THEN "absent" ELSE f[x]]

IsPrefix(s, t) == Len(s) <= Len(t) /\ SubSeq(t, 1, Len(s)) = s
PidSeq(S) == SelectSeq([i \in 1..(NumProcs + 2) |-> i - 1], LAMBDA p : p \in S)

\* ------------------------------------------------------ operating system
\* Each remove operation yields the set of outcomes the OS can produce in the
\* current state: a record with the error (NoErr on success) and the file
\* system afterwards.  faulty = TRUE admits failures unrelated to locks.
Spurious(faulty) == IF faulty THEN SpuriousErrors ELSE {}
Fail(E, f) == {[err |-> e, fs |-> f] : e \in E}

\* fs::metadata follows a link (the attribute read is the target's) while
\* fs::set_permissions (SetFileAttributesW) writes to the entry named p.
\* The outcomes are the io::Result (res) and the attributes afterwards (ro):
\* Err when the metadata cannot be read or the attribute cannot be written.
mark_as_not_readonly(p, faulty) ==
    IF ~exists(p) THEN {[res |-> "err", ro |-> readonly]}
    ELSE IF Deref(p) \in readonly
    THEN {[res |-> "ok", ro |-> readonly \ {p}]}
         \cup (IF faulty THEN {[res |-> "err", ro |-> readonly]} ELSE {})
    ELSE {[res |-> "ok", ro |-> readonly]}

remove_file(p, ro, faulty) ==
    IF fs[p] = "absent" THEN Fail({ErrNotFound}, fs)
    ELSE IF fs[p] # "file" THEN Fail({ErrAccess}, fs)
    ELSE IF Holders(p) # {} THEN Fail({ErrSharing, ErrLockViolation}, fs)
    ELSE IF p \in ro THEN Fail({ErrAccess}, fs)
    ELSE {[err |-> NoErr, fs |-> Removed(fs, {p})]} \cup Fail(Spurious(faulty), fs)

remove_dir(p, ro, faulty) ==
    IF fs[p] = "absent" THEN Fail({ErrNotFound}, fs)
    ELSE IF fs[p] = "file" THEN Fail({ErrNotADirectory}, fs)
    ELSE IF fs[p] = "dir" /\ Children(fs, p) # {} THEN Fail({ErrNotEmpty}, fs)
    ELSE IF Holders(p) # {} THEN Fail({ErrSharing, ErrLockViolation}, fs)
    ELSE IF p \in ro THEN Fail({ErrAccess}, fs)
    ELSE {[err |-> NoErr, fs |-> Removed(fs, {p})]} \cup Fail(Spurious(faulty), fs)

\* What a failed recursive removal may already have removed: every entry below
\* p whose own subtree holds no locked entry.
PartialRemoval(p) ==
    Removed(fs, {x \in Subtree(p) \ {p} : Locked(fs, x) = {}})

fast_remove_dir_all(p, faulty) ==
    IF fs[p] = "absent" THEN Fail({ErrNotFound}, fs)
    ELSE IF fs[p] = "file" THEN Fail({ErrNotADirectory}, fs)
    ELSE IF fs[p] = "link"
         THEN {[err |-> NoErr, fs |-> Removed(fs, {p})]} \cup Fail(Spurious(faulty), fs)
    ELSE IF Locked(fs, p) # {}
         THEN Fail({ErrSharing, ErrLockViolation} \cup Spurious(faulty), fs)
              \cup Fail({ErrSharing, ErrLockViolation} \cup Spurious(faulty), PartialRemoval(p))
    ELSE {[err |-> NoErr, fs |-> Removed(fs, Subtree(p))]}
         \cup Fail(Spurious(faulty), fs) \cup Fail(Spurious(faulty), PartialRemoval(p))

\* ------------------------------------------------------- lock inspection
get_locking_processes(p) == PidSeq(Holders(p))

get_locking_processes_low_level(p) ==
    IF ~exists(p) THEN <<>>
    ELSE PidSeq({q \in alive \ {SelfPid} :
            /\ holding[q] # NoNode
            /\ NaturalKind[holding[q]] = "dir"
            /\ \/ IsPrefix(Text[Deref(p)], Text[holding[q]])
               \/ IsPrefix(Text[holding[q]], Text[Deref(p)])})

\* Result<Vec<ProcessInfo>, LockCheckError> of one inspection.
LockOk(procs) == [err |-> "none", procs |-> procs]
LockErr(k) == [err |-> k, procs |-> <<>>]

\* LockCheckError variants each strategy can return: the Restart Manager
\* session (files) or the canonicalization of the target (directories).
SessionErrors == {"SessionStart", "RegisterResources", "GetList", "GetListAccessDenied"}

\* The inspection each loop runs: its possible results in the current state.
lock_check(fn, p, faulty) ==
    IF fn = "delete_file"
    THEN {LockOk(get_locking_processes(p))}
         \cup (IF faulty THEN {LockErr(k) : k \in SessionErrors} ELSE {})
    ELSE IF ~exists(p) THEN {LockErr("FileNotFound")}
    ELSE {LockOk(get_locking_processes_low_level(p))}
         \cup (IF faulty THEN {LockErr("FileNotFound")} ELSE {})

\* Variant of the get_processes closure whose error arm does not fall back to
\* the empty list.
get_processes_NoDefault(r) == IF r.err = "none" THEN r.procs ELSE PidSeq(alive)

\* The get_processes closure of each loop: Ok(procs) => procs, any
\* LockCheckError => Vec::new() (unwrap_or_default).
get_processes(r) == IF r.err = "none" THEN r.procs ELSE <<>>

\* ---------------------------------------------------- process termination
\* Variant of kill_processes with the own-pid test inverted.
RECURSIVE kill_processes_InvertedSkip(_, _, _)
kill_processes_InvertedSkip(procs, al, killable) ==
    IF procs = <<>> THEN al
    ELSE kill_processes_InvertedSkip(Tail(procs),
             IF Head(procs) # SelfPid THEN al
             ELSE IF Head(procs) \in al /\ Head(procs) \in killable THEN al \ {Head(procs)}
             ELSE al,
             killable)

\* Variant of kill_processes that gives up at the first failed kill.
RECURSIVE kill_processes_StopAtFailure(_, _, _)
kill_processes_StopAtFailure(procs, al, killable) ==
    IF procs = <<>> THEN al
    ELSE IF Head(procs) = SelfPid THEN kill_processes_StopAtFailure(Tail(procs), al, killable)
    ELSE IF Head(procs) \in al /\ Head(procs) \in killable
         THEN kill_processes_StopAtFailure(Tail(procs), al \ {Head(procs)}, killable)
    ELSE al

\* killable: the pids on which OpenProcess and TerminateProcess succeed.
kill_process(pid, al, killable) == IF pid \in al /\ pid \in killable THEN al \ {pid} ELSE al

RECURSIVE kill_processes(_, _, _)
kill_processes(procs, al, killable) ==
    IF procs = <<>> THEN al
    ELSE kill_processes(Tail(procs),
                        IF Head(procs) = SelfPid THEN al
                        ELSE kill_process(Head(procs), al, killable),
                        killable)

Range(sq) == {sq[i] : i \in 1..Len(sq)}

\* Variant of kill_requests without the own-pid test.
kill_requests_NoSkip(procs) == procs

\* The pids kill_processes hands to kill_process, in list order.
kill_requests(procs) == SelectSeq(procs, LAMBDA p : p # SelfPid)
Killable(procs, faulty) == IF faulty THEN SUBSET (Range(procs) \ {SelfPid}) ELSE {Range(procs)}

\* ------------------------------------------------------------ call frames
LoopFns == {"delete_file", "delete_directory", "delete_empty_directory"}

Frame(fn, p, pc) ==
    [fn |-> fn, path |-> p, attempt |-> 1, pc |-> pc, err |-> NoErr, procs |-> <<>>,
     entries |-> <<>>, trace |-> <<>>, allLock |-> TRUE, present |-> TRUE,
     insp |-> "none", req |-> <<>>, failed |-> {}, marked |-> "none", seen |-> <<>>,
     before |-> 0]

delete_file(p) == Frame("delete_file", p, "attempt")

\* Variant of delete_directory without the symlink test.
delete_directory_NoSymlinkTest(p) == Frame("delete_directory", p, "attempt")

delete_directory(p) ==
    IF is_symlink(p) THEN Frame("delete_empty_directory", p, "attempt")
                     ELSE Frame("delete_directory", p, "attempt")

delete_empty_directory(p) == Frame("delete_empty_directory", p, "attempt")

delete_directory_slow(p) ==
    <<Frame("delete_directory_slow", p, "contents"), Frame("delete_files_in_folder", p, "list")>>

\* u32::MAX scaled to the model: the largest value the field max_retries can
\* hold lies above every value the bounded scenarios give it.
RetriesMax == MaxRetriesBound + 2

\* `self.config.max_retries + 1` is a u32 addition: it overflows for the
\* largest value.  A build with overflow checks panics there, any other
\* build wraps around to 0.
Overflows == max_retries + 1 > RetriesMax

\* Last value of `for attempt in 1..=self.config.max_retries + 1`.
LoopBound == (max_retries + 1) % (RetriesMax + 1)

\* Variant of the budget test that allows one cycle too many.
ExceededRetries_Late(attempt_number) == attempt_number > max_retries + 1

\* Variant of the budget test that is off by one.
ExceededRetries_OffByOne(attempt_number) == attempt_number >= max_retries

\* kill_processes_and_log_info returns true (caller gives up) on this test.
ExceededRetries(attempt_number) == attempt_number > max_retries

\* Error classes each loop hands to kill_processes_and_log_info.
Retryable(fn, e) ==
    CASE fn = "delete_file" -> is_io_or_permission_error(e)
      [] fn = "delete_directory" -> is_lock_error(e)
      [] OTHER -> is_io_error(e)

\* Variant of the match with the error-kind arms before the existence arm.
MatchArms_KindFirst(fn, e, present, attempt_number) ==
    IF (CASE fn = "delete_file" -> e.kind \in {"PermissionDenied", "WouldBlock", "Other"}
                                     \/ e.raw \in {32, 33}
          [] fn = "delete_directory" -> e.raw \in {32, 33}
          [] OTHER -> e.kind = "Other" \/ e.raw \in {32, 33})
    THEN IF attempt_number > max_retries THEN "exhausted" ELSE "retry"
    ELSE IF ~present THEN "ok"
    ELSE IF fn = "delete_directory" THEN "fallback"
    ELSE "fail"

\* The match arms after a failed remove call, in source order: "ok" (path is
\* gone), "retry" (run the retry cycle), "exhausted" (budget spent, Err(e)),
\* "fallback" (fast path only) or "fail" (Err(e)).
MatchArms(fn, e, present, attempt_number) ==
    IF ~present THEN "ok"
    ELSE IF Retryable(fn, e)
         THEN IF ExceededRetries(attempt_number) THEN "exhausted" ELSE "retry"
    ELSE IF fn = "delete_directory" THEN "fallback"
    ELSE "fail"

\* Variant of the retry cycle that terminates the holders before it sleeps.
RetryCycle_KillBeforeSleep == <<"inspect", "kill", "sleep">>

\* Variant of the retry cycle without the sleep.
RetryCycle_NoSleep == <<"inspect", "kill">>

\* Order of the steps of kill_processes_and_log_info once the budget test passed.
RetryCycle == <<"inspect", "sleep", "kill">>

\* Variant in which the retry cycle does not come back to the loop.
NextPc_NoReturn(pc) ==
    LET i == CHOOSE k \in 1..Len(RetryCycle) : RetryCycle[k] = pc
    IN IF i = Len(RetryCycle) THEN "halt" ELSE RetryCycle[i + 1]

NextPc(pc) ==
    LET i == CHOOSE k \in 1..Len(RetryCycle) : RetryCycle[k] = pc
    IN IF i = Len(RetryCycle) THEN "attempt" ELSE RetryCycle[i + 1]

What(fn) == IF fn = "delete_file" THEN "file" ELSE "directory"

Top == stack[Len(stack)]
Rest == SubSeq(stack, 1, Len(stack) - 1)
NoDone == [valid |-> FALSE, fn |-> "", path |-> NoNode, trace |-> <<>>, allLock |-> FALSE,
           present |-> FALSE, attempt |-> 0, err |-> NoErr, marked |-> "none", res |-> NoResult]
DoneOf(fr, val) == [valid |-> TRUE, fn |-> fr.fn, path |-> fr.path, trace |-> fr.trace,
                    allLock |-> fr.allLock, present |-> fr.present, attempt |-> fr.attempt,
                    err |-> fr.err, marked |-> fr.marked, res |-> val]

\* Variant of Deliver in which delete_files_in_folder goes on to the next
\* entry after a failed deletion.
RECURSIVE Deliver_SkipsFailedEntry(_, _)
Deliver_SkipsFailedEntry(stk, val) ==
    IF stk = <<>> THEN [stack |-> <<>>, result |-> val]
    ELSE LET top == stk[Len(stk)]
             rest == SubSeq(stk, 1, Len(stk) - 1)
         IN IF top.fn = "delete_files_in_folder"
            THEN [stack |-> Append(rest, [top EXCEPT !.pc = "next",
                                                     !.entries = Tail(top.entries)]),
                  result |-> NoResult]
            ELSE IF ~val.ok THEN Deliver_SkipsFailedEntry(rest, val)
            ELSE IF top.fn = "delete_directory_slow"
                 THEN [stack |-> Append(rest, [fn |-> "delete_empty_directory", path |-> top.path,
                          attempt |-> 1, pc |-> "attempt", err |-> NoErr, procs |-> <<>>,
                          entries |-> <<>>, trace |-> <<>>, allLock |-> TRUE, present |-> TRUE,
                          insp |-> "none", req |-> <<>>, failed |-> {}, marked |-> "none",
                          seen |-> <<>>, before |-> top.before]),
                       result |-> NoResult]
            ELSE Deliver_SkipsFailedEntry(rest, val)

\* Hands a returned value to the caller's frame; an Err short-circuits through
\* the `?` of delete_directory_slow and delete_files_in_folder.
RECURSIVE Deliver(_, _)
Deliver(stk, val) ==
    IF stk = <<>> THEN [stack |-> <<>>, result |-> val]
    ELSE LET top == stk[Len(stk)]
             rest == SubSeq(stk, 1, Len(stk) - 1)
         IN IF ~val.ok THEN Deliver(rest, val)
            ELSE IF top.fn = "delete_directory_slow"
                 THEN [stack |-> Append(rest, [delete_empty_directory(top.path)
                                                   EXCEPT !.before = top.before]),
                       result |-> NoResult]
            ELSE IF top.fn = "delete_files_in_folder"
                 THEN [stack |-> Append(rest, [top EXCEPT !.pc = "next",
                                                          !.entries = Tail(top.entries)]),
                       result |-> NoResult]
            ELSE Deliver(rest, val)

Return(fr, val) ==
    /\ stack' = Deliver(Rest, val).stack
    /\ result' = Deliver(Rest, val).result
    /\ done' = DoneOf(fr, val)

Running == call.op # "none" /\ result = NoResult
InLoop(pc) == Running /\ stack # <<>> /\ Top.fn \in LoopFns /\ Top.pc = pc

\* ----------------------------------------------------------------- Init
\* The deleter has been constructed with its config; no operation runs yet.
\* External processes are listed in a canonical order of what they hold.
\* Result<()> of main.rs::run and of run_with_relaunch_as_elevated: the
\* action's own result handed on unchanged, or the outcome of the relaunch.
NoOutcome == [ok |-> FALSE, tag |-> "none", code |-> 0, inner |-> NoResult]
Propagated(r) == [ok |-> r.ok, tag |-> "action", code |-> 0, inner |-> r]
Relaunched(ok, tag, code) == [ok |-> ok, tag |-> tag, code |-> code, inner |-> NoResult]

\* Nothing has been listed.
NoListing == [strategy |-> "none", res |-> [err |-> "none", procs |-> <<>>], msg |-> <<>>]

\* No command line is being run.
NoCli == [cmd |-> "none", files |-> <<>>, force |-> FALSE, disable_elevate |-> FALSE,
          idx |-> 0, pc |-> "idle", outcome |-> NoOutcome, listing |-> NoListing,
          exit |-> -1, error_logged |-> FALSE]
NoCoord == [pc |-> "idle", actions |-> 0, spawns |-> 0, action_result |-> NoResult,
            msg |-> <<>>, elevated |-> FALSE, code |-> -1, left_tmp |-> FALSE,
            outcome |-> NoOutcome, hProcess |-> "none", closes |-> 0]
NoTmp == [exists |-> FALSE, lines |-> <<>>]
NoChild == [state |-> "none", script |-> <<>>, fds |-> <<>>, wrote |-> <<>>, code |-> -1,
            args |-> <<>>]

\* No lock inspection is running.
NoScan == [op |-> "none", pc |-> "idle", paths |-> <<>>, guard |-> "none", calls |-> <<>>,
           needed |-> 0, target |-> <<>>, pids |-> <<>>, cwd |-> <<>>, examined |-> <<>>,
           failed |-> {}, found |-> <<>>, res |-> [err |-> "none", procs |-> <<>>],
           running |-> {}]

CliIdle ==
    /\ cli = NoCli
    /\ coord = NoCoord
    /\ tmp = NoTmp
    /\ child = NoChild
    /\ channel = <<>>
    /\ scan = NoScan
    /\ incarnation = [q \in ExtPids |-> 0]

Rank(n) == CASE n = NoNode -> 0 [] n = "f" -> 1 [] n = "d" -> 2 [] n = "d/a" -> 3 [] OTHER -> 4

Init ==
    /\ max_retries \in 0..MaxRetriesBound
    /\ fs = NaturalKind
    /\ readonly \in {{}, {"f"}, {"d"}}
    /\ holding \in [ExtPids -> LockTargets \cup {NoNode}]
    /\ \A p, q \in ExtPids : p < q => Rank(holding[p]) >= Rank(holding[q])
    /\ alive = ExtPids
    /\ own \in {NoNode, "f"}
    /\ CliIdle
    /\ call = [op |-> "none", path |-> NoNode, force |-> FALSE, existed |-> FALSE]
    /\ stack = <<>>
    /\ result = NoResult
    /\ done = NoDone
    /\ acted = FALSE

\* -------------------------------------------------------- public operations
\* The scenario holds nothing but the target: every lock and every read-only
\* attribute lies on the target or below it.
Scene(p) ==
    /\ \A q \in ExtPids : holding[q] # NoNode => holding[q] \in Subtree(Deref(p))
    /\ own # NoNode => own \in Subtree(Deref(p))
    /\ readonly \subseteq {Deref(p)}

\* Variant of delete_file_or_directory that ignores `force`.
delete_file_or_directory_ForceIgnored(p, force) ==
    IF fs[Deref(p)] = "file" THEN [stack |-> <<delete_file(p)>>, result |-> NoResult]
    ELSE IF fs[Deref(p)] = "dir" THEN [stack |-> <<delete_directory(p)>>, result |-> NoResult]
    ELSE [stack |-> <<>>, result |-> NotFoundFailure(p)]

\* delete_file_or_directory(path, force): the frames it starts, or its result.
delete_file_or_directory(p, force) ==
    IF is_file(p) THEN [stack |-> <<delete_file(p)>>, result |-> NoResult]
    ELSE IF is_dir(p) THEN [stack |-> <<delete_directory(p)>>, result |-> NoResult]
    ELSE IF ~force THEN [stack |-> <<>>, result |-> NotFoundFailure(p)]
    ELSE [stack |-> <<>>, result |-> OkResult]

CallDeleteFileOrDirectory ==
    \E p \in {"f", "d", "l", "j", "m"}, force \in BOOLEAN :
        /\ call.op = "none"
        /\ Scene(p)
        /\ call' = [op |-> "delete", path |-> p, force |-> force, existed |-> exists(p)]
        /\ stack' = delete_file_or_directory(p, force).stack
        /\ result' = delete_file_or_directory(p, force).result
        /\ UNCHANGED <<ctx, max_retries, fs, readonly, holding, alive, done, acted>>

CallDeleteFile ==
    \E p \in {"f", "m"} :
        /\ call.op = "none"
        /\ Scene(p)
        /\ call' = [op |-> "delete_file", path |-> p, force |-> FALSE, existed |-> exists(p)]
        /\ stack' = <<delete_file(p)>>
        /\ UNCHANGED <<ctx, max_retries, fs, readonly, holding, alive, result, done, acted>>

CallDeleteDirectory ==
    \E p \in {"d", "l", "m"} :
        /\ call.op = "none"
        /\ Scene(p)
        /\ call' = [op |-> "delete_directory", path |-> p, force |-> FALSE, existed |-> exists(p)]
        /\ stack' = <<delete_directory(p)>>
        /\ UNCHANGED <<ctx, max_retries, fs, readonly, holding, alive, result, done, acted>>

\* delete_directory called on the directory d/s, which has no entries.
CallDeleteDirectoryNoEntries ==
    /\ call.op = "none"
    /\ Scene("d/s")
    /\ call' = [op |-> "delete_directory", path |-> "d/s", force |-> FALSE,
                existed |-> exists("d/s")]
    /\ stack' = <<delete_directory("d/s")>>
    /\ UNCHANGED <<ctx, max_retries, fs, readonly, holding, alive, result, done, acted>>

\* ------------------------------------------------------------ retry loops
RemoveOutcomes(fn, p, ro, faulty) ==
    CASE fn = "delete_file" -> remove_file(p, ro, faulty)
      [] fn = "delete_directory" -> fast_remove_dir_all(p, faulty)
      [] OTHER -> remove_dir(p, ro, faulty)

\* Variant in which no loop clears the attribute.
MarkOutcomes_NoCall(fn, p, faulty) == {[res |-> "none", ro |-> readonly]}

\* `let _ = mark_as_not_readonly(path);` of delete_file and
\* delete_empty_directory; the fast path has no such call (res "none").
MarkOutcomes(fn, p, faulty) ==
    IF fn = "delete_directory" THEN {[res |-> "none", ro |-> readonly]}
    ELSE mark_as_not_readonly(p, faulty)

\* Loop head, mark_as_not_readonly and the remove call of one attempt.
AttemptStep(faulty) ==
    /\ InLoop("attempt")
    /\ IF Overflows
       THEN /\ \E build \in {"checked", "wrapping"} :
                 Return(Top, IF build = "checked" THEN Panicked
                             ELSE FailedAfterRetries(What(Top.fn), Top.path))
            /\ UNCHANGED <<fs, readonly, acted>>
       ELSE IF Top.attempt > LoopBound
       THEN /\ Return(Top, FailedAfterRetries(What(Top.fn), Top.path))
            /\ UNCHANGED <<fs, readonly, acted>>
       ELSE \E m \in MarkOutcomes(Top.fn, Top.path, faulty) :
            \E o \in RemoveOutcomes(Top.fn, Top.path, m.ro, faulty) :
                LET fr == [Top EXCEPT !.trace = Append(@, "attempt"), !.err = o.err,
                                      !.insp = "none", !.req = <<>>, !.failed = {},
                                      !.marked = m.res]
                IN /\ fs' = o.fs
                   /\ readonly' = {x \in m.ro : o.fs[x] # "absent"}
                   /\ acted' = TRUE
                   /\ IF o.err = NoErr
                      THEN Return([fr EXCEPT !.allLock = FALSE], OkResult)
                      ELSE /\ stack' = Append(Rest, [fr EXCEPT !.pc = "recheck"])
                           /\ result' = NoResult
                           /\ done' = NoDone
    /\ UNCHANGED <<ctx, max_retries, holding, alive, call>>

Attempt == AttemptStep(TRUE)

\* The match arms after a failed remove: existence re-check, classification
\* and the budget test of kill_processes_and_log_info.
Recheck ==
    /\ InLoop("recheck")
    /\ LET fr == [Top EXCEPT !.allLock = @ /\ is_lock_error(Top.err) /\ exists(Top.path),
                             !.present = exists(Top.path)]
           arm == MatchArms(Top.fn, Top.err, exists(Top.path), Top.attempt)
           go(pc) == /\ stack' = Append(Rest, [fr EXCEPT !.pc = pc])
                     /\ result' = NoResult
                     /\ done' = NoDone
       IN CASE arm = "ok" -> Return(fr, OkResult)
            [] arm = "retry" -> go(RetryCycle[1])
            [] arm = "fallback" -> go("fallback")
            [] OTHER -> Return(fr, IoFailure(Top.err))
    /\ UNCHANGED <<ctx, max_retries, fs, readonly, holding, alive, call, acted>>

\* delete_directory, non-lock error: slow path if the directory still exists.
\* When the directory has no entries, the slow path comes down to another
\* removal of the directory itself: its frame remembers in `before` how many
\* removal attempts the for loop had made when it gave up the fast path.
Fallback ==
    /\ InLoop("fallback")
    /\ IF exists(Top.path)
       THEN /\ stack' = Rest \o <<[delete_directory_slow(Top.path)[1]
                                       EXCEPT !.before = IF Children(fs, Top.path) = {}
                                                         THEN Top.attempt ELSE 0],
                                   delete_directory_slow(Top.path)[2]>>
            /\ result' = NoResult
            /\ done' = NoDone
       ELSE Return(Top, IoFailure(Top.err))
    /\ UNCHANGED <<ctx, max_retries, fs, readonly, holding, alive, call, acted>>

\* One step of the retry cycle moves the frame on; the step that closes the
\* cycle starts the next iteration of the for loop.  The trace records
\* "kill" when kill_processes issued a termination request and "kill_none"
\* when it had nobody to terminate.
Advance(fr, pc, ev) ==
    [fr EXCEPT !.pc = NextPc(pc), !.trace = Append(@, ev), !.err = NoErr,
               !.attempt = IF NextPc(pc) = "attempt" THEN @ + 1 ELSE @]

\* kill_processes_and_log_info: get_processes() and the log line.
InspectStep(faulty) ==
    /\ InLoop("inspect")
    /\ \E r \in lock_check(Top.fn, Top.path, faulty) :
        stack' = Append(Rest, Advance([Top EXCEPT !.procs = get_processes(r), !.insp = r.err,
                                                  !.seen = incarnation],
                                      "inspect", "inspect"))
    /\ acted' = TRUE
    /\ done' = NoDone
    /\ UNCHANGED <<ctx, max_retries, fs, readonly, holding, alive, call, result>>

Inspect == InspectStep(TRUE)

\* kill_processes_and_log_info: thread::sleep(retry_delay_ms).
Sleep ==
    /\ InLoop("sleep")
    /\ stack' = Append(Rest, Advance(Top, "sleep", "sleep"))
    /\ acted' = TRUE
    /\ done' = NoDone
    /\ UNCHANGED <<ctx, max_retries, fs, readonly, holding, alive, call, result>>

\* kill_processes_and_log_info: process::kill_processes(&processes).
KillStep(faulty) ==
    /\ InLoop("kill")
    /\ \E killable \in Killable(Top.procs, faulty) :
        /\ alive' = kill_processes(Top.procs, alive, killable)
        /\ stack' = Append(Rest,
              Advance([Top EXCEPT !.procs = <<>>,
                                  !.req = kill_requests(Top.procs),
                                  !.failed = Range(kill_requests(Top.procs)) \ (killable \cap alive)],
                      "kill",
                      IF kill_requests(Top.procs) # <<>> THEN "kill" ELSE "kill_none"))
    /\ acted' = TRUE
    /\ done' = NoDone
    /\ UNCHANGED <<ctx, max_retries, fs, readonly, holding, call, result>>

Kill == KillStep(TRUE)

\* ------------------------------------------------------------- slow path
InFolder(pc) == Running /\ stack # <<>> /\ Top.fn = "delete_files_in_folder" /\ Top.pc = pc

\* delete_files_in_folder: fs::read_dir(directory)?
ListEntries ==
    /\ InFolder("list")
    /\ IF is_dir(Top.path)
       THEN /\ stack' = Append(Rest,
                   [Top EXCEPT !.pc = "next",
                               !.entries = SelectSeq(EntryOrder,
                                   LAMBDA x : x \in Children(fs, Deref(Top.path)))])
            /\ result' = NoResult
       ELSE /\ stack' = Deliver(Rest, IoFailure(ErrNotFound)).stack
            /\ result' = Deliver(Rest, IoFailure(ErrNotFound)).result
    /\ done' = NoDone
    /\ UNCHANGED <<ctx, max_retries, fs, readonly, holding, alive, call, acted>>

\* delete_files_in_folder: one iteration of `for entry in entries`.
NextEntry ==
    /\ InFolder("next")
    /\ IF Top.entries = <<>>
       THEN /\ stack' = Deliver(Rest, OkResult).stack
            /\ result' = Deliver(Rest, OkResult).result
       ELSE LET e == Head(Top.entries)
                waiting == Append(Rest, [Top EXCEPT !.pc = "wait"])
            IN /\ IF is_file(e) THEN stack' = Append(waiting, delete_file(e))
                  ELSE IF is_dir(e) THEN stack' = Append(waiting, delete_directory(e))
                  ELSE stack' = Append(Rest, [Top EXCEPT !.entries = Tail(@)])
               /\ result' = NoResult
    /\ done' = NoDone
    /\ UNCHANGED <<ctx, max_retries, fs, readonly, holding, alive, call, acted>>

\* ------------------------------------------------------------ environment
\* The entries the running loop is working on: its path and, for a link, the
\* entry the link points to.
Contested == IF stack # <<>> /\ Top.fn \in LoopFns THEN {Top.path, Deref(Top.path)} ELSE {}

\* Another actor removes a contested entry nobody holds open.
EnvDelete ==
    \E n \in Contested :
        /\ Running
        /\ fs[n] # "absent"
        /\ Locked(fs, n) = {}
        /\ fs' = Removed(fs, Subtree(n))
        /\ readonly' = readonly \ Subtree(n)
        /\ UNCHANGED <<ctx, max_retries, holding, alive, call, stack, result, done, acted>>

\* A lock holder exits on its own.
EnvExit ==
    \E p \in alive :
        /\ Running
        /\ holding[p] # NoNode
        /\ alive' = alive \ {p}
        /\ UNCHANGED <<ctx, max_retries, fs, readonly, holding, call, stack, result, done, acted>>

Next ==
    \/ CallDeleteFileOrDirectory
    \/ CallDeleteFile
    \/ CallDeleteDirectory
    \/ Attempt
    \/ Recheck
    \/ Fallback
    \/ Inspect
    \/ Sleep
    \/ Kill
    \/ ListEntries
    \/ NextEntry
    \/ EnvDelete
    \/ EnvExit

Spec == Init /\ [][Next]_vars

\* ------------------------------------------------------------ termination
\* The steps of the deleter itself.  Its thread keeps running (weak
\* fairness) whatever the remove operations, the inspection and the
\* terminations return, and whatever the other actors remove meanwhile.
Engine ==
    \/ Attempt
    \/ Recheck
    \/ Fallback
    \/ Inspect
    \/ Sleep
    \/ Kill
    \/ ListEntries
    \/ NextEntry

SpecTerm == Init /\ [][Next]_vars /\ WF_vars(Engine)

\* ------------------------------------------------- single-blocker scenario
\* One external process holds the target (an open handle on the file, or a
\* working directory in the directory tree); nothing else fails: removal
\* fails only on a lock, inspection answers, termination succeeds and
\* releases the lock.  The deleter thread keeps running (weak fairness).
LiveInit ==
    /\ max_retries \in 1..MaxRetriesBound
    /\ fs = NaturalKind
    /\ readonly \in {{}, {"f"}, {"d"}}
    /\ \E h \in ExtPids, n \in {"f", "d", "d/s"} :
          holding = [q \in ExtPids |-> IF q = h THEN n ELSE NoNode]
    /\ alive = ExtPids
    /\ own = NoNode
    /\ CliIdle
    /\ call = [op |-> "none", path |-> NoNode, force |-> FALSE, existed |-> FALSE]
    /\ stack = <<>>
    /\ result = NoResult
    /\ done = NoDone
    /\ acted = FALSE

AttemptQuiet == AttemptStep(FALSE)
InspectQuiet == InspectStep(FALSE)
KillQuiet == KillStep(FALSE)

LiveProgram == AttemptQuiet \/ Recheck \/ InspectQuiet \/ Sleep \/ KillQuiet

LiveNext ==
    \/ CallDeleteFileOrDirectory
    \/ CallDeleteFile
    \/ CallDeleteDirectory
    \/ AttemptQuiet
    \/ Recheck
    \/ InspectQuiet
    \/ Sleep
    \/ KillQuiet

SpecLive == LiveInit /\ [][LiveNext]_vars /\ WF_vars(LiveProgram)

\* ================================================== command line (main.rs)
\* ------------------------------------------------------------ error texts
\* A text is a sequence of words; to_lowercase maps every word and
\* `contains` finds a word of the lower-cased text.
Lower(w) == CASE w = "Access" -> "access" [] w = "Zugriff" -> "zugriff" [] OTHER -> w

\* Directories the targets can live in: every path the command handles is
\* made absolute against the current directory.
CwdNames == {<<"C:", "tmp">>, <<"C:", "Access">>}
PathText(p, cwd) == cwd \o Text[p]

\* Message texts the OS has for an io::Error (they depend on its language).
OsMessages(e) ==
    CASE e = ErrAccess -> {<<"Access", "is", "denied">>, <<"Zugriff", "verweigert">>}
      [] is_lock_error(e) -> {<<"The", "process", "cannot", "access", "the", "file">>,
                              <<"Der", "Prozess", "kann", "nicht", "zugreifen">>}
      [] OTHER -> {<<"The", "operation", "failed">>}

\* error.to_string() of the Err a deletion returned.
Messages(r) ==
    CASE r.tag = "io" -> {t \o <<"(os", "error)">> : t \in OsMessages(r.err)}
      [] r.tag = "notfound" ->
            {<<"Cannot", "remove">> \o PathText(r.path, c) \o <<"No", "such", "file", "or", "directory">>
                : c \in CwdNames}
      [] OTHER ->
            {<<"Failed", "to", "delete", r.what>> \o PathText(r.path, c) \o <<"after", "retries">>
                : c \in CwdNames}

Contains(msg, w) == \E i \in 1..Len(msg) : Lower(msg[i]) = w

is_permission_error(msg) ==
    Contains(msg, "access") \/ Contains(msg, "permission") \/ Contains(msg, "denied")

\* Variant of the relaunch guard without the elevation test.
ShouldRelaunch_IgnoresElevation(msg, elevated) == is_permission_error(msg)

\* Guard of the relaunch arm: is_permission_error(&e) && !is_process_elevated().
ShouldRelaunch(msg, elevated) == is_permission_error(msg) /\ ~elevated

\* Variant of run's branch that always goes through the coordinator.
UsesCoordinator_Always(disable_elevate) == TRUE

\* run: `if disable_elevate { run_delete()? } else { run_with_relaunch_as_elevated(..) }`.
UsesCoordinator(disable_elevate) == ~disable_elevate

\* Variant of the exit-code test that takes a non-zero code for success.
ChildSucceeded_NonZero(exit_code) == exit_code # 0

\* `if exit_code != 0 { .. Err } else { .. Ok }`.
ChildSucceeded(exit_code) == exit_code = 0

\* The redirections of the child's command line, in the order written:
\* `2>&1 > "file"`.  cmd.exe applies them left to right to the handle table
\* (entry 1 standard output, entry 2 standard error).
Redirections == <<[fd |-> 2, to |-> "&1"], [fd |-> 1, to |-> "file"]>>

RECURSIVE ApplyRedirections(_, _)
ApplyRedirections(rs, fds) ==
    IF rs = <<>> THEN fds
    ELSE ApplyRedirections(Tail(rs),
            [fds EXCEPT ![Head(rs).fd] = IF Head(rs).to = "&1" THEN fds[1] ELSE "tmp"])

\* What the relaunched command writes: its log and error lines go to standard
\* error (main.rs), the last script also writes a line to standard output.
ChildScripts ==
    {<<>>, <<[fd |-> 2, text |-> "ERROR"]>>,
     <<[fd |-> 1, text |-> "out"], [fd |-> 2, text |-> "ERROR"]>>}
ExitCodes == {0, 1, 2}

\* std::env::args() of a delete command: program, subcommand, flags, files.
Args(files, force) == <<"forceops", "delete">> \o (IF force THEN <<"--force">> ELSE <<>>) \o files
HasForce(args) == \E i \in 1..Len(args) : args[i] \in {"-f", "--force"}

\* The build_args closure of run: the arguments with "-f" pushed unless a
\* force flag is among them.
build_args(args) == IF HasForce(args) THEN args ELSE Append(args, "-f")

\* Exit codes the relaunched command can end with, by run_delete and
\* delete_file_or_directory: it fails on a listed target that does not exist
\* unless its arguments carry a force flag.
ChildExitCodes(args) ==
    {c \in {0, 1, 2} :
        c = 0 => \/ HasForce(args)
                 \/ \A i \in 1..Len(args) : args[i] \in Nodes => exists(args[i])}

\* Argument lists of the delete command.
FileLists == {<<"f">>, <<"d">>, <<"m">>, <<"f", "m">>, <<"m", "f">>}

\* The command-line scenario: at most one external process holds a target.
CliInit ==
    /\ max_retries \in 0..MaxRetriesBound
    /\ fs = NaturalKind
    /\ readonly = {}
    /\ \E n \in {NoNode, "f", "d/s"} :
          holding = [q \in ExtPids |-> IF q = 1 THEN n ELSE NoNode]
    /\ alive = ExtPids
    /\ call = [op |-> "none", path |-> NoNode, force |-> FALSE, existed |-> FALSE]
    /\ stack = <<>>
    /\ result = NoResult
    /\ done = NoDone
    /\ acted = FALSE
    /\ own = NoNode
    /\ CliIdle

\* main / run: the Delete command has been parsed.
CliDelete ==
    \E files \in FileLists, force \in BOOLEAN, disable_elevate \in BOOLEAN :
        /\ cli = NoCli
        /\ \A q \in ExtPids : holding[q] # NoNode =>
              \E i \in 1..Len(files) : holding[q] \in Subtree(files[i])
        /\ cli' = [NoCli EXCEPT !.cmd = "delete", !.files = files, !.force = force,
                                !.disable_elevate = disable_elevate, !.idx = 1, !.pc = "action"]
        /\ coord' = IF UsesCoordinator(disable_elevate)
                    THEN [NoCoord EXCEPT !.pc = "action", !.actions = 1]
                    ELSE NoCoord
        /\ UNCHANGED <<scan, incarnation, max_retries, fs, readonly, holding, alive, call, stack, result, done,
                       acted, own, tmp, child, channel>>

\* Return of run_with_relaunch_as_elevated, and with it of run.
\* c is the coordinator's state and t the output file at the return.
Finish(c, o, t) ==
    /\ coord' = [c EXCEPT !.pc = "done", !.outcome = o, !.left_tmp = t.exists]
    /\ cli' = [cli EXCEPT !.pc = "done", !.outcome = o]

\* run_delete returned r: to run's caller, or to the coordinator's match.
ActionReturns(r) ==
    IF UsesCoordinator(cli.disable_elevate)
    THEN /\ coord' = [coord EXCEPT !.pc = "classify", !.action_result = r]
         /\ UNCHANGED cli
    ELSE /\ cli' = [cli EXCEPT !.pc = "done", !.outcome = Propagated(r)]
         /\ UNCHANGED coord

\* The run_delete closure: one iteration of `for file in &files` with the `?`
\* on the previous deletion's result, or its final Ok(()).
RunDelete ==
    /\ cli.pc = "action" /\ coord.pc \in {"idle", "action"}
    /\ stack = <<>> /\ (call.op = "none" \/ result # NoResult)
    /\ IF call.op # "none" /\ ~result.ok
       THEN ActionReturns(result) /\ UNCHANGED <<call, stack, result>>
       ELSE IF cli.idx > Len(cli.files)
       THEN ActionReturns(OkResult) /\ UNCHANGED <<call, stack, result>>
       ELSE LET p == cli.files[cli.idx] IN
            /\ call' = [op |-> "delete", path |-> p, force |-> cli.force, existed |-> exists(p)]
            /\ stack' = delete_file_or_directory(p, cli.force).stack
            /\ result' = delete_file_or_directory(p, cli.force).result
            /\ cli' = [cli EXCEPT !.idx = @ + 1]
            /\ UNCHANGED coord
    /\ UNCHANGED <<scan, incarnation, max_retries, fs, readonly, holding, alive, done, acted, own, tmp, child, channel>>

\* run_with_relaunch_as_elevated: the match on action()'s result.
Classify ==
    /\ coord.pc = "classify"
    /\ IF coord.action_result.ok
       THEN Finish(coord, Propagated(coord.action_result), tmp)
       ELSE \E msg \in Messages(coord.action_result), elevated \in BOOLEAN :
              IF ShouldRelaunch(msg, elevated)
              THEN /\ coord' = [coord EXCEPT !.pc = "launch", !.msg = msg, !.elevated = elevated]
                   /\ UNCHANGED cli
              ELSE Finish([coord EXCEPT !.msg = msg, !.elevated = elevated],
                          Propagated(coord.action_result), tmp)
    /\ UNCHANGED <<scan, incarnation, max_retries, fs, readonly, holding, alive, call, stack, result, done, acted,
                   own, tmp, child, channel>>

\* relaunch_as_elevated up to the wait: ShellExecuteExW fails (no child), or
\* it starts the child and returns no process handle, or it returns the handle.
Launch ==
    /\ coord.pc = "launch"
    /\ \/ /\ Finish(coord, Relaunched(FALSE, "launch_failed", 0), tmp)
          /\ UNCHANGED child
       \/ \E script \in ChildScripts :
          /\ child' = [NoChild EXCEPT !.state = "starting", !.script = script,
                                      !.fds = <<"console", "console">>,
                                      !.args = build_args(Args(cli.files, cli.force))]
          /\ \/ coord' = [coord EXCEPT !.pc = "wait", !.spawns = @ + 1, !.hProcess = "open"]
                /\ UNCHANGED cli
             \/ Finish([coord EXCEPT !.spawns = @ + 1], Relaunched(FALSE, "no_handle", 0), tmp)
    /\ UNCHANGED <<scan, incarnation, max_retries, fs, readonly, holding, alive, call, stack, result, done, acted,
                   own, tmp, channel>>

\* The elevated cmd.exe sets up the redirections (creating the output file) ...
ChildStart ==
    /\ child.state = "starting" /\ coord.pc = "wait"
    /\ child' = [child EXCEPT !.state = "running", !.fds = ApplyRedirections(Redirections, @)]
    /\ tmp' = [exists |-> TRUE, lines |-> <<>>]
    /\ UNCHANGED <<scan, incarnation, max_retries, fs, readonly, holding, alive, call, stack, result, done, acted,
                   own, cli, coord, channel>>

\* ... the command writes a line to one of its standard streams ...
ChildWrite ==
    /\ child.state = "running" /\ coord.pc = "wait" /\ child.script # <<>>
    /\ LET w == Head(child.script) IN
       /\ child' = [child EXCEPT !.script = Tail(@), !.wrote = Append(@, w.text)]
       /\ tmp' = IF child.fds[w.fd] = "tmp" THEN [tmp EXCEPT !.lines = Append(@, w.text)] ELSE tmp
    /\ UNCHANGED <<scan, incarnation, max_retries, fs, readonly, holding, alive, call, stack, result, done, acted,
                   own, cli, coord, channel>>

\* ... and exits.
ChildExit ==
    /\ child.state = "running" /\ coord.pc = "wait" /\ child.script = <<>>
    /\ \E c \in ExitCodes \cap ChildExitCodes(child.args) :
          child' = [child EXCEPT !.state = "exited", !.code = c]
    /\ UNCHANGED <<scan, incarnation, max_retries, fs, readonly, holding, alive, call, stack, result, done, acted,
                   own, cli, coord, tmp, channel>>

\* CloseHandle(sei.hProcess).
CloseHandle(c) == [c EXCEPT !.hProcess = "closed", !.closes = @ + 1]

\* relaunch_as_elevated: WaitForSingleObject and GetExitCodeProcess.  A failed
\* wait closes the handle and returns; a failed exit-code query returns
\* through `?`, before the CloseHandle that follows it.
WaitChild ==
    /\ coord.pc = "wait"
    /\ \/ Finish(CloseHandle(coord), Relaunched(FALSE, "wait_failed", 0), tmp)
       \/ /\ child.state = "exited"
          /\ \/ Finish(coord, Relaunched(FALSE, "exit_code_failed", 0), tmp)
             \/ /\ coord' = [CloseHandle(coord) EXCEPT !.pc = "report", !.code = child.code]
                /\ UNCHANGED cli
    /\ UNCHANGED <<scan, incarnation, max_retries, fs, readonly, holding, alive, call, stack, result, done, acted,
                   own, tmp, child, channel>>

\* run_with_relaunch_as_elevated after the child's exit code is known.
Report ==
    /\ coord.pc = "report"
    /\ IF ChildSucceeded(coord.code)
       THEN /\ channel' = channel
            /\ tmp' = NoTmp
            /\ Finish(coord, Relaunched(TRUE, "child", coord.code), NoTmp)
       ELSE /\ channel' = channel \o (IF tmp.exists THEN tmp.lines ELSE <<>>)
            /\ tmp' = NoTmp
            /\ Finish(coord, Relaunched(FALSE, "child", coord.code), NoTmp)
    /\ UNCHANGED <<scan, incarnation, max_retries, fs, readonly, holding, alive, call, stack, result, done, acted,
                   own, child>>

\* Variant of get_locks without the existence test.
get_locks_NoExistenceCheck(p, faulty) ==
    IF is_dir(p)
    THEN {[strategy |-> "low_level", res |-> r, msg |-> <<>>]
              : r \in lock_check("delete_directory", p, faulty)}
    ELSE {[strategy |-> "restart_manager", res |-> r, msg |-> <<>>]
              : r \in lock_check("delete_file", p, faulty)}

\* lock_checker::get_locks: the strategy it calls and what that returns
\* (lock_check runs the directory scan for every name but "delete_file").
get_locks(p, faulty) ==
    IF ~exists(p)
    THEN {[strategy |-> "none", res |-> LockErr("FileNotFound"),
           msg |-> <<"Cannot", "list", "locks", "of">> \o Text[p]
                   \o <<"No", "such", "file", "or", "directory">>]}
    ELSE IF is_dir(p)
    THEN {[strategy |-> "low_level", res |-> r, msg |-> <<>>]
              : r \in lock_check("delete_directory", p, faulty)}
    ELSE {[strategy |-> "restart_manager", res |-> r, msg |-> <<>>]
              : r \in lock_check("delete_file", p, faulty)}

\* main / run: the List command.
CliList ==
    \E p \in {"f", "d", "d/a", "l", "m"} : \E g \in get_locks(p, TRUE) :
        /\ cli = NoCli
        /\ cli' = [NoCli EXCEPT !.cmd = "list", !.files = <<p>>, !.pc = "done", !.listing = g,
                                !.outcome = [NoOutcome EXCEPT !.ok = (g.res.err = "none"),
                                                              !.tag = "list"]]
        /\ UNCHANGED <<scan, incarnation, max_retries, fs, readonly, holding, alive, call, stack, result, done,
                       acted, own, coord, tmp, child, channel>>

\* Variant of main that hands on the child's exit code.
exit_code_OfChild(outcome) ==
    IF outcome.ok THEN 0 ELSE IF outcome.tag = "child" THEN outcome.code ELSE 1

\* main: `Ok(()) => ExitCode::SUCCESS, Err(e) => { error!("{e}"); ExitCode::from(1) }`.
exit_code(outcome) == IF outcome.ok THEN 0 ELSE 1

\* main: the match on run's result.
Main ==
    /\ cli.pc = "done"
    /\ cli' = [cli EXCEPT !.pc = "exited", !.exit = exit_code(cli.outcome),
                          !.error_logged = ~cli.outcome.ok]
    /\ UNCHANGED <<scan, incarnation, max_retries, fs, readonly, holding, alive, call, stack, result, done,
                   acted, own, coord, tmp, child, channel>>

CliNext ==
    \/ CliDelete
    \/ CliList
    \/ RunDelete
    \/ Attempt
    \/ Recheck
    \/ Fallback
    \/ Inspect
    \/ Sleep
    \/ Kill
    \/ ListEntries
    \/ NextEntry
    \/ Classify
    \/ Launch
    \/ ChildStart
    \/ ChildWrite
    \/ ChildExit
    \/ WaitChild
    \/ Report
    \/ Main

SpecCli == CliInit /\ [][CliNext]_vars

\* ============================================ lock inspection (lock_checker.rs)
\* --------------------------------------------------- Restart Manager session
\* Variant of the guard's drop that never ends the session.
scopeguard_drop_Forgets(guard) == <<>>

\* Drop of the scopeguard: the closure (RmEndSession) runs once if the guard
\* still holds its value.
scopeguard_drop(guard) == IF guard = "armed" THEN <<"RmEndSession">> ELSE <<>>

\* Variant of the early return that treats no list as empty.
paths_is_empty_Never(paths) == FALSE

\* `if paths.is_empty() { return Ok(Vec::new()); }`
paths_is_empty(paths) == paths = <<>>

\* Return from get_locking_processes: locals are dropped, the guard included.
RmReturn(s, r) ==
    [s EXCEPT !.pc = "done", !.res = r, !.calls = @ \o scopeguard_drop(s.guard),
              !.guard = IF s.guard = "armed" THEN "dropped" ELSE @]

\* The lock inspection starts from a quiet file system with some holders.
LocksInit ==
    /\ max_retries = 0
    /\ fs = NaturalKind
    /\ readonly = {}
    /\ holding \in [ExtPids -> {NoNode, "f", "d/a"}]
    /\ \A p, q \in ExtPids : p < q => Rank(holding[p]) >= Rank(holding[q])
    /\ alive = ExtPids
    /\ own = NoNode
    /\ CliIdle
    /\ call = [op |-> "none", path |-> NoNode, force |-> FALSE, existed |-> FALSE]
    /\ stack = <<>>
    /\ result = NoResult
    /\ done = NoDone
    /\ acted = FALSE

Quiet == UNCHANGED <<incarnation, max_retries, fs, readonly, holding, alive, call, stack, result, done,
                     acted, own, cli, coord, tmp, child, channel>>

\* get_locking_processes(paths): the call and its first test.
RmCall ==
    \E paths \in {<<>>, <<"f">>, <<"f", "d/a">>} :
        /\ scan.pc = "idle"
        /\ scan' = IF paths_is_empty(paths)
                   THEN [NoScan EXCEPT !.op = "files", !.pc = "done"]
                   ELSE [NoScan EXCEPT !.op = "files", !.pc = "start", !.paths = paths]
        /\ Quiet

\* RmStartSession and, when it succeeded, the creation of the guard.
RmStartSession ==
    /\ scan.op = "files" /\ scan.pc = "start"
    /\ \E ok \in BOOLEAN :
         scan' = IF ok
                 THEN [scan EXCEPT !.pc = "register", !.guard = "armed",
                                   !.calls = Append(@, "RmStartSession")]
                 ELSE RmReturn([scan EXCEPT !.calls = Append(@, "RmStartSession")],
                               LockErr("SessionStart"))
    /\ Quiet

RmRegisterResources ==
    /\ scan.op = "files" /\ scan.pc = "register"
    /\ \E ok \in BOOLEAN :
         LET s == [scan EXCEPT !.calls = Append(@, "RmRegisterResources")]
         IN scan' = IF ok THEN [s EXCEPT !.pc = "getlist1"]
                          ELSE RmReturn(s, LockErr("RegisterResources"))
    /\ Quiet

\* Both RmGetList calls: the first asks for the size, the second for the list.
\* Result codes: ERROR_SUCCESS, ERROR_MORE_DATA, ERROR_ACCESS_DENIED and one
\* other failure; the session lists the holders of the registered paths.
RmGetList ==
    /\ scan.op = "files" /\ scan.pc \in {"getlist1", "getlist2"}
    /\ \E code \in {0, 234, 5, 1} :
         LET s == [scan EXCEPT !.calls = Append(@, "RmGetList")]
             holders == UNION {Holders(scan.paths[i]) : i \in 1..Len(scan.paths)}
             n == Cardinality(holders)
         IN /\ code = 0 /\ scan.pc = "getlist1" => n = 0
            /\ scan' =
                 IF code \notin {0, 234}
                 THEN RmReturn(s, LockErr(IF code = 5 THEN "GetListAccessDenied" ELSE "GetList"))
                 ELSE IF scan.pc = "getlist1"
                      THEN IF n = 0 THEN RmReturn([s EXCEPT !.needed = 0], LockOk(<<>>))
                           ELSE [s EXCEPT !.pc = "getlist2", !.needed = n]
                      ELSE RmReturn(s, LockOk(PidSeq(holders)))
    /\ Quiet

\* ------------------------------------------------- working-directory scan
\* Path strings are sequences of characters.
Verbatim == <<"\\", "\\", "?", "\\">>
to_lowercase(t) == [i \in 1..Len(t) |-> CASE t[i] = "C" -> "c" [] t[i] = "D" -> "d" [] OTHER -> t[i]]
strip_prefix(t, pre) == IF IsPrefix(pre, t) THEN SubSeq(t, Len(pre) + 1, Len(t)) ELSE t

\* to_lowercase() followed by strip_prefix(r"\\?\").unwrap_or(..).
clean(t) == strip_prefix(to_lowercase(t), Verbatim)

\* Variant of the match that only accepts a working directory below the target.
cwd_matches_OnlyBelow(cwd_clean, target_path_clean) == IsPrefix(target_path_clean, cwd_clean)

\* cwd_clean.starts_with(&target_path_clean) || target_path_clean.starts_with(cwd_clean)
cwd_matches(cwd_clean, target_path_clean) ==
    IsPrefix(target_path_clean, cwd_clean) \/ IsPrefix(cwd_clean, target_path_clean)

\* Variant of the loop body that gives up the scan at an unreadable process.
scan_process_StopsAtFailure(s, pid, readable) ==
    IF pid = IdlePid \/ pid = SelfPid THEN [s EXCEPT !.examined = Append(@, pid)]
    ELSE IF ~readable
    THEN [s EXCEPT !.examined = s.pids, !.failed = @ \cup {pid}]
    ELSE [s EXCEPT !.examined = Append(@, pid),
                   !.found = IF cwd_matches(clean(s.cwd[pid]), clean(s.target))
                             THEN Append(@, pid) ELSE @]

\* One iteration of `for &pid in &pids[..num_processes]`; readable tells
\* whether get_process_current_directory(pid) returned Some.
scan_process(s, pid, readable) ==
    IF pid = IdlePid \/ pid = SelfPid THEN [s EXCEPT !.examined = Append(@, pid)]
    ELSE IF ~readable
    THEN [s EXCEPT !.examined = Append(@, pid), !.failed = @ \cup {pid}]
    ELSE [s EXCEPT !.examined = Append(@, pid),
                   !.found = IF cwd_matches(clean(s.cwd[pid]), clean(s.target))
                             THEN Append(@, pid) ELSE @]

\* What fs::canonicalize returns for the targets, and the working
\* directories the processes can have, as the OS spells them.
TargetTexts ==
    {Verbatim \o <<"C", ":", "\\", "d">>, Verbatim \o <<"C", ":", "\\", "d", "\\", "s">>}
CwdTexts ==
    {<<"C", ":", "\\", "D", "\\">>, <<"c", ":", "\\", "d", "\\", "s", "\\">>,
     <<"c", ":", "\\", "d", "x", "\\">>, <<"c", ":", "\\">>, <<"c", ":", "\\", "e", "\\">>,
     Verbatim \o <<"c", ":", "\\", "d">>}

\* `let mut pids = [0u32; 4096];` scaled to the model's process table, which
\* has NumProcs + 2 process ids: the buffer holds one id fewer.
PidBufferLen == NumProcs + 1

\* EnumProcesses on the buffer: the ids of the running processes, or as many
\* of them as the buffer holds (the call does not say which it left out).
EnumProcesses(running) ==
    {R \in SUBSET running :
        Cardinality(R) = IF Cardinality(running) <= PidBufferLen
                         THEN Cardinality(running) ELSE PidBufferLen}

\* get_locking_processes_low_level(path) up to the loop: canonicalize fails,
\* EnumProcesses fails, or the process ids have been enumerated.  The caller's
\* own working directory lies in the target; the scan reads nothing but the
\* process table, so it is studied with no file handle open.
ScanCall ==
    /\ scan.pc = "idle"
    /\ \A q \in ExtPids : holding[q] = NoNode
    /\ \/ scan' = [NoScan EXCEPT !.op = "dir", !.pc = "done", !.res = LockErr("FileNotFound")]
       \/ \E t \in TargetTexts :
            \/ scan' = [NoScan EXCEPT !.op = "dir", !.pc = "done", !.target = t]
            \/ \E E \in SUBSET ExtPids, c \in [ExtPids -> CwdTexts] :
               \E R \in EnumProcesses({IdlePid, SelfPid} \cup E) :
                 scan' = [NoScan EXCEPT !.op = "dir", !.pc = "scan", !.target = t,
                            !.running = {IdlePid, SelfPid} \cup E,
                            !.pids = PidSeq(R),
                            !.cwd = [q \in 1..(NumProcs + 1) |->
                                        IF q = SelfPid THEN <<"c", ":", "\\", "d", "\\">> ELSE c[q]]]
    /\ Quiet

\* The loop of get_locking_processes_low_level and its final Ok(found_processes).
ScanNext ==
    /\ scan.op = "dir" /\ scan.pc = "scan"
    /\ IF Len(scan.examined) = Len(scan.pids)
       THEN scan' = [scan EXCEPT !.pc = "done", !.res = LockOk(scan.found)]
       ELSE \E readable \in BOOLEAN :
              scan' = scan_process(scan, scan.pids[Len(scan.examined) + 1], readable)
    /\ Quiet

LocksNext ==
    \/ RmCall
    \/ RmStartSession
    \/ RmRegisterResources
    \/ RmGetList
    \/ ScanCall
    \/ ScanNext

SpecLocks == LocksInit /\ [][LocksNext]_vars

\* ============================================== the whole range of max_retries
\* The config field takes any of its values, the largest included.
WideInit ==
    /\ max_retries \in 0..RetriesMax
    /\ fs = NaturalKind
    /\ readonly = {}
    /\ \E n \in {NoNode, "f", "d/s"} :
          holding = [q \in ExtPids |-> IF q = 1 THEN n ELSE NoNode]
    /\ alive = ExtPids
    /\ own \in {NoNode, "f"}
    /\ CliIdle
    /\ call = [op |-> "none", path |-> NoNode, force |-> FALSE, existed |-> FALSE]
    /\ stack = <<>>
    /\ result = NoResult
    /\ done = NoDone
    /\ acted = FALSE

WideNext ==
    \/ CallDeleteFile
    \/ CallDeleteDirectory
    \/ Attempt
    \/ Recheck
    \/ Fallback
    \/ Inspect
    \/ Sleep
    \/ Kill
    \/ ListEntries
    \/ NextEntry

SpecWide == WideInit /\ [][WideNext]_vars

\* ================================================= concurrent replacement
\* The deleter works on a target that other actors change under it.
RaceInit ==
    /\ max_retries \in 1..MaxRetriesBound
    /\ fs = NaturalKind
    /\ readonly = {}
    /\ holding \in [ExtPids -> {NoNode, "f", "d/s"}]
    /\ \A p, q \in ExtPids : p < q => Rank(holding[p]) >= Rank(holding[q])
    /\ alive = ExtPids
    /\ own = NoNode
    /\ CliIdle
    /\ call = [op |-> "none", path |-> NoNode, force |-> FALSE, existed |-> FALSE]
    /\ stack = <<>>
    /\ result = NoResult
    /\ done = NoDone
    /\ acted = FALSE

\* Another actor puts an entry of another kind in the place of the entry the
\* running loop works on (nobody holds it open): a file, an empty directory,
\* or a link.
EnvReplace ==
    \E k \in {"file", "dir", "link"} :
        /\ Running /\ stack # <<>> /\ Top.fn \in LoopFns
        /\ fs[Top.path] \notin {"absent", k}
        /\ Locked(fs, Top.path) = {}
        /\ k = "link" => LinkTarget[Top.path] # NoNode
        /\ fs' = [Removed(fs, Subtree(Top.path)) EXCEPT ![Top.path] = k]
        /\ readonly' = readonly \ Subtree(Top.path)
        /\ UNCHANGED <<ctx, max_retries, holding, alive, call, stack, result, done, acted>>

\* A lock holder exits and the OS gives its process id to a process that has
\* nothing to do with the target.
EnvRecycle ==
    \E p \in alive :
        /\ Running /\ stack # <<>> /\ Top.fn \in LoopFns
        /\ holding[p] # NoNode
        /\ incarnation[p] < MaxRecycles
        /\ incarnation' = [incarnation EXCEPT ![p] = @ + 1]
        /\ holding' = [holding EXCEPT ![p] = NoNode]
        /\ UNCHANGED <<own, cli, coord, tmp, child, channel, scan, max_retries, fs, readonly,
                       alive, call, stack, result, done, acted>>

RaceNext ==
    \/ CallDeleteFileOrDirectory
    \/ Attempt
    \/ Recheck
    \/ Fallback
    \/ Inspect
    \/ Sleep
    \/ Kill
    \/ ListEntries
    \/ NextEntry
    \/ EnvReplace
    \/ EnvRecycle

SpecRace == RaceInit /\ [][RaceNext]_vars

\* ================================================================ claims
\* Scenarios of delete_directory on a directory without entries.
NoEntriesNext ==
    \/ CallDeleteDirectoryNoEntries
    \/ Attempt
    \/ Recheck
    \/ Fallback
    \/ Inspect
    \/ Sleep
    \/ Kill
    \/ ListEntries
    \/ NextEntry

SpecNoEntries == Init /\ [][NoEntriesNext]_vars

Attempts(trace) == Cardinality({i \in 1..Len(trace) : trace[i] = "attempt"})
Count(trace, ev) == Cardinality({i \in 1..Len(trace) : trace[i] = ev})
LoopFrames == {stack[i] : i \in {j \in 1..Len(stack) : stack[j].fn \in LoopFns}}

C2_SuccessMeansAbsent ==
    done.valid /\ done.res.ok => \A x \in Subtree(done.path) : fs[x] = "absent"

\* C3: with max_retries >= 1 and a single external holder that inspection
\* reports and whose termination releases the lock, every delete_file /
\* delete_directory call eventually returns Success with the target absent.
C3_SingleHolderEventuallyDeleted ==
    (call.op # "none") ~>
        (result.ok /\ \A x \in Subtree(call.path) : fs[x] = "absent")

C3_Witness ==
    /\ result.ok /\ call.path = "d" /\ fs["d"] = "absent"
    /\ done.valid /\ Count(done.trace, "kill") = 1 /\ alive # ExtPids

\* C4: in every attempt of every loop, a failed remove call followed by an
\* existence re-check that finds the path absent makes the loop return
\* Success, whatever the error kind and the attempt number.
C4_VanishedTargetIsSuccess ==
    [][(InLoop("recheck") /\ ~exists(Top.path) /\ stack' # stack) =>
          /\ done'.valid /\ done'.res = OkResult
          /\ done'.fn = Top.fn /\ done'.path = Top.path /\ done'.attempt = Top.attempt]_vars

C4_Witness ==
    /\ done.valid /\ done.res.ok /\ ~done.present
    /\ done.fn = "delete_file" /\ done.err = ErrAccess /\ done.attempt = 2

\* C5: delete(path, force) on a path that does not exist fails with NotFound
\* when force is false and succeeds when force is true, and in both cases
\* attempts no removal, inspects nothing, does not sleep and kills nothing.
C5_MissingPath ==
    call.op = "delete" /\ ~call.existed =>
        /\ result = IF call.force THEN OkResult ELSE NotFoundFailure(call.path)
        /\ stack = <<>> /\ ~acted /\ ~done.valid
        /\ fs = NaturalKind /\ alive = ExtPids

C5_Witness == call.op = "delete" /\ ~call.existed /\ call.force /\ result = OkResult

\* C6: a loop that exhausted its retry budget on lock-class failures returns
\* the failure naming the path, the kind (file / directory) and max_retries.
C6_ExhaustionNamesPathKindRetries ==
    done.valid /\ done.allLock /\ ~done.res.ok =>
        done.res = FailedAfterRetries(What(done.fn), done.path)

SpecLockClass(e) == e.raw \in {32, 33} \/ e.kind \in {"ResourceBusy", "Other"}

CodeRetryClass(fn, e) ==
    \/ e.raw \in {32, 33}
    \/ e.kind = "Other"
    \/ fn = "delete_file" /\ e.kind \in {"PermissionDenied", "WouldBlock"}

CycleBounded(trace) ==
    /\ Count(trace, "inspect") <= max_retries
    /\ Count(trace, "sleep") <= max_retries
    /\ Count(trace, "kill") + Count(trace, "kill_none") <= max_retries

\* C8: a lock-class failure on an attempt numbered above max_retries ends the
\* loop at once; a loop runs at most max_retries inspect / sleep / kill cycles
\* (none at all when max_retries = 0) and nothing follows its last attempt.
C8_NoCycleAfterBudget ==
    /\ \A fr \in LoopFrames :
          /\ CycleBounded(fr.trace)
          /\ fr.pc \in {"inspect", "sleep", "kill"} => fr.attempt <= max_retries
    /\ done.valid =>
          /\ CycleBounded(done.trace)
          /\ Attempts(done.trace) > max_retries =>
                done.trace[Len(done.trace)] = "attempt"

C8_Witness ==
    /\ done.valid /\ ~done.res.ok /\ is_lock_error(done.err) /\ max_retries = 2
    /\ Attempts(done.trace) = 3 /\ Count(done.trace, "kill") = 2

ConsecutiveAttempts(trace, i, j) ==
    /\ i < j /\ trace[i] = "attempt" /\ trace[j] = "attempt"
    /\ \A k \in (i + 1)..(j - 1) : trace[k] # "attempt"

SleepsIn(trace, i, j) == Cardinality({k \in i..j : trace[k] = "sleep"})

SleepOnlyBetween(trace) ==
    /\ \A i, j \in 1..Len(trace) :
          ConsecutiveAttempts(trace, i, j) => SleepsIn(trace, i + 1, j - 1) = 1
    /\ \A k \in 1..Len(trace) :
          trace[k] = "sleep" => \E i \in 1..(k - 1) : trace[i] = "attempt"

\* C9: within one retry loop the sleep occurs only between two consecutive
\* removal attempts: none before the first attempt, none after the last one,
\* exactly one between any two consecutive attempts.
C9_SleepOnlyBetweenAttempts ==
    /\ \A fr \in LoopFrames :
          /\ SleepOnlyBetween(fr.trace)
          /\ \A i \in 1..Len(fr.trace) :
                (fr.trace[i] = "attempt" /\ \A k \in (i + 1)..Len(fr.trace) : fr.trace[k] # "attempt")
                    => SleepsIn(fr.trace, i + 1, Len(fr.trace)) <= 1
    /\ done.valid =>
          /\ SleepOnlyBetween(done.trace)
          /\ \A k \in 1..Len(done.trace) :
                done.trace[k] = "sleep" =>
                    \E j \in (k + 1)..Len(done.trace) : done.trace[j] = "attempt"

C9_Witness ==
    /\ done.valid /\ done.res.ok
    /\ Attempts(done.trace) = 3 /\ Count(done.trace, "sleep") = 2

SleepAfterKill(trace) ==
    \A i, j \in 1..Len(trace) :
        (i < j /\ trace[i] = "kill" /\ trace[j] = "attempt")
            => \E k \in (i + 1)..(j - 1) : trace[k] = "sleep"

\* C10: after the termination requests of a retry cycle, the next removal
\* attempt starts only after a retry_delay sleep: a sleep lies between the
\* kill and the attempt that follows it.
C10_SleepBetweenKillAndAttempt ==
    /\ \A fr \in LoopFrames : SleepAfterKill(fr.trace)
    /\ done.valid => SleepAfterKill(done.trace)

\* C17: no termination request is ever issued for the caller's own process
\* id, whatever holder list the inspection returned, lists naming the caller
\* itself included.
C17_NeverKillsSelf ==
    \A fr \in LoopFrames : SelfPid \notin Range(fr.req)

C17_Witness ==
    /\ own = "f" /\ stack # <<>> /\ Top.fn = "delete_file" /\ Top.insp = "none"
    /\ Top.trace # <<>> /\ Top.trace[Len(Top.trace)] = "kill" /\ Len(Top.req) = 2

\* C18: kill_processes never fails its caller and isolates failures: every
\* holder other than the caller gets its termination request even when an
\* earlier one failed (a request that could succeed does terminate the
\* process), and after the kill step the loop is at its next removal attempt.
C18_KillFailuresIsolated ==
    \A fr \in LoopFrames :
        /\ \A p \in Range(fr.req) \ fr.failed : p \notin alive
        /\ fr.failed \subseteq Range(fr.req)
        /\ (fr.req # <<>> \/ (fr.trace # <<>> /\ fr.trace[Len(fr.trace)] \in {"kill", "kill_none"}))
              => /\ fr.pc = "attempt" /\ fr.attempt <= LoopBound
                 /\ result = NoResult /\ fr = Top

C18_Witness ==
    /\ stack # <<>> /\ Top.fn \in LoopFns /\ Len(Top.req) = 2
    /\ Top.req[1] \in Top.failed /\ Top.req[2] \notin Top.failed
    /\ Top.req[1] \in alive /\ Top.req[2] \notin alive /\ Top.pc = "attempt"

LastEvents(trace, n) == SubSeq(trace, Len(trace) - n + 1, Len(trace))

\* C19: an inspection error of any kind during a retry cycle does not abort
\* the deletion: the cycle goes on with the empty holder list (it sleeps, it
\* issues no termination request) and arrives at the next removal attempt.
C19_InspectionErrorContinues ==
    \A fr \in LoopFrames :
        fr.insp # "none" =>
            /\ fr.procs = <<>> /\ fr.req = <<>> /\ fr.failed = {}
            /\ result = NoResult /\ fr = Top
            /\ fr.pc \in {"sleep", "kill", "attempt"}
            /\ fr.pc = "sleep" => LastEvents(fr.trace, 1) = <<"inspect">>
            /\ fr.pc = "kill" => LastEvents(fr.trace, 2) = <<"inspect", "sleep">>
            /\ fr.pc = "attempt" =>
                  /\ LastEvents(fr.trace, 3) = <<"inspect", "sleep", "kill_none">>
                  /\ fr.attempt <= LoopBound

C19_Witness ==
    /\ stack # <<>> /\ Top.fn = "delete_file" /\ Top.insp = "GetListAccessDenied"
    /\ Top.pc = "attempt" /\ Top.attempt = 2 /\ Holders(Top.path) # {}

\* C21: get_locking_processes with an empty path list returns Ok with the
\* empty list and makes no Restart Manager call at all: no session start, no
\* registration, no list query, no session end.
C21_EmptyPathsNoSession ==
    (scan.op = "files" /\ scan.paths = <<>>) =>
        /\ scan.pc = "done" /\ scan.res = LockOk(<<>>)
        /\ scan.calls = <<>> /\ scan.guard = "none"

C21_Witness == scan.op = "files" /\ scan.paths = <<>> /\ scan.pc = "done"

SessionStarted(s) == s.calls # <<>> /\ ~(s.pc = "done" /\ s.res.err = "SessionStart")

\* C22: in get_locking_processes a session that was started is ended exactly
\* once on every exit path (registration failure, list-query failure in
\* either phase, empty result, success), the end is the last call on the
\* session, and no end is issued when the start failed or before the return.
C22_SessionEndedExactlyOnce ==
    scan.op = "files" =>
        /\ scan.pc # "done" => Count(scan.calls, "RmEndSession") = 0
        /\ (scan.pc = "done" /\ SessionStarted(scan)) =>
              /\ Count(scan.calls, "RmEndSession") = 1
              /\ scan.calls[Len(scan.calls)] = "RmEndSession"
              /\ scan.calls[1] = "RmStartSession"
        /\ (scan.pc = "done" /\ ~SessionStarted(scan)) =>
              /\ Count(scan.calls, "RmEndSession") = 0
              /\ Count(scan.calls, "RmRegisterResources") + Count(scan.calls, "RmGetList") = 0

C22_Witness ==
    /\ scan.op = "files" /\ scan.pc = "done" /\ scan.res.err = "GetListAccessDenied"
    /\ scan.needed > 0 /\ Count(scan.calls, "RmGetList") = 2
    /\ Count(scan.calls, "RmEndSession") = 1

C23_Key(t) ==
    LET low == [i \in 1..Len(t) |-> IF t[i] = "C" THEN "c" ELSE IF t[i] = "D" THEN "d" ELSE t[i]]
    IN IF Len(low) >= 4 /\ SubSeq(low, 1, 4) = <<"\\", "\\", "?", "\\">>
       THEN SubSeq(low, 5, Len(low)) ELSE low

C23_Holder(p) ==
    /\ p \in Range(scan.pids) /\ p # 0 /\ p # SelfPid /\ p \notin scan.failed
    /\ \/ IsPrefix(C23_Key(scan.cwd[p]), C23_Key(scan.target))
       \/ IsPrefix(C23_Key(scan.target), C23_Key(scan.cwd[p]))

RECURSIVE ScanAll(_, _)
ScanAll(s, pids) ==
    IF pids = <<>> THEN s.found ELSE ScanAll(scan_process(s, Head(pids), TRUE), Tail(pids))

\* C24: in the directory strategy a process whose working directory cannot
\* be read is only left out: every enumerated process is still examined, the
\* query returns Ok, and the result is that of the same scan with the failing
\* processes absent.
C24_ScanFailureOmitsOneProcess ==
    (scan.op = "dir" /\ scan.pids # <<>>) =>
        /\ scan.res.err = "none"
        /\ scan.pc = "done" =>
              /\ scan.examined = scan.pids
              /\ scan.res.procs =
                    ScanAll([scan EXCEPT !.found = <<>>, !.examined = <<>>, !.failed = {}],
                            SelectSeq(scan.pids, LAMBDA p : p \notin scan.failed))

C24_Witness ==
    /\ scan.op = "dir" /\ scan.pc = "done" /\ scan.failed = {1} /\ scan.res.procs = <<2>>
    /\ cwd_matches(clean(scan.cwd[1]), clean(scan.target))

\* C25: delete_directory on a symbolic link to a directory only ever works
\* on the link entry: every step of the call leaves the link's target, all
\* entries below it and their attributes as they were, the only frames are
\* empty-directory removals of the link (no fast path, no listing), and
\* nothing but the link is removed.
C25_SymlinkDirectoryOnlyLinkRemoved ==
    [][(call'.op = "delete_directory" /\ call'.path = "l" /\ stack' # stack) =>
          /\ \A x \in Nodes \ {"l"} : fs'[x] = fs[x]
          /\ readonly' = readonly
          /\ \A i \in 1..Len(stack') :
                stack'[i].fn = "delete_empty_directory" /\ stack'[i].path = "l"]_vars

C25_Witness ==
    /\ call.op = "delete_directory" /\ call.path = "l" /\ result.ok /\ fs["l"] = "absent"
    /\ \A x \in Subtree("d") : fs[x] = NaturalKind[x]
    /\ readonly = {"d"} /\ done.valid /\ Attempts(done.trace) = 2

\* C26: a symbolic link given to delete is deleted as the link entry itself
\* whatever the state of its target: the call never reports the link as
\* missing, and when it reports success the link no longer exists.
C26_LinksDeletedAsEntries ==
    (call.op = "delete" /\ NaturalKind[call.path] = "link" /\ result # NoResult) =>
        /\ result.tag # "notfound"
        /\ result.ok => fs[call.path] = "absent"

\* What the command did, read off the deletions, the listing and the child.
CommandSucceeded ==
    CASE cli.cmd = "list" -> cli.listing.res.err = "none"
      [] coord.pc = "idle" -> ~(call.op # "none" /\ ~result.ok)
      [] coord.code # -1 -> coord.code = 0
      [] coord.msg # <<>> /\ ShouldRelaunch(coord.msg, coord.elevated) -> FALSE
      [] OTHER -> coord.action_result.ok

\* C27: the program exits with 0 exactly when the command succeeded and with
\* 1 on every failure: a failed deletion, a failed list query, a failed
\* elevation launch and an elevated child that exited with any non-zero code.
C27_ExitCodeZeroOrOne ==
    /\ cli.exit \in {-1, 0, 1}
    /\ cli.pc = "exited" <=> cli.exit # -1
    /\ cli.pc = "exited" =>
          /\ cli.exit = (IF CommandSucceeded THEN 0 ELSE 1)
          /\ cli.error_logged <=> cli.exit = 1

C27_Witness ==
    /\ cli.pc = "exited" /\ cli.exit = 1 /\ coord.code = 2 /\ child.state = "exited"

IsKill(ev) == ev \in {"kill", "kill_none"}

CycleOrder(trace) ==
    /\ trace # <<>> => trace[1] = "attempt"
    /\ \A i \in 1..Len(trace) :
          /\ trace[i] = "attempt" /\ i < Len(trace) => trace[i + 1] = "inspect"
          /\ trace[i] = "inspect" /\ i < Len(trace) => trace[i + 1] = "sleep"
          /\ trace[i] = "sleep" /\ i < Len(trace) => IsKill(trace[i + 1])
          /\ IsKill(trace[i]) /\ i < Len(trace) => trace[i + 1] = "attempt"
          /\ trace[i] # "attempt" => i > 1

FastOn(stk, p) == \E i \in 1..Len(stk) : stk[i].fn = "delete_directory" /\ stk[i].path = p
SlowOn(stk, p) == \E i \in 1..Len(stk) : stk[i].fn = "delete_directory_slow" /\ stk[i].path = p

\* The fast path after a failed attempt with the directory still existing:
\* lockClass(e) failures run the retry cycle and come back to the fast path,
\* all others start the slow path, which replaces the fast path for good.
FastPathState(lockClass(_)) ==
    /\ \A fr \in LoopFrames : fr.fn = "delete_directory" =>
          /\ fr.pc = "inspect" => lockClass(fr.err)
          /\ fr.pc = "fallback" => fr.err # NoErr /\ ~lockClass(fr.err)
    /\ \A q \in Nodes : ~(FastOn(stack, q) /\ SlowOn(stack, q))

FastPathStep(lockClass(_)) ==
    /\ (InLoop("recheck") /\ Top.fn = "delete_directory" /\ exists(Top.path)
           /\ stack' # stack) =>
          IF lockClass(Top.err)
          THEN IF Top.attempt <= max_retries
               THEN /\ Len(stack') = Len(stack) /\ Top'.fn = "delete_directory"
                    /\ Top'.pc = "inspect" /\ Top'.attempt = Top.attempt
               ELSE done'.valid /\ done'.res = IoFailure(Top.err)
          ELSE Len(stack') = Len(stack) /\ Top'.pc = "fallback"
    /\ (InLoop("kill") /\ Top.fn = "delete_directory" /\ stack' # stack) =>
          /\ Len(stack') = Len(stack) /\ Top'.fn = "delete_directory"
          /\ Top'.path = Top.path /\ Top'.pc = "attempt" /\ Top'.attempt = Top.attempt + 1
    /\ (InLoop("fallback") /\ exists(Top.path) /\ stack' # stack) =>
          /\ Len(stack') = Len(stack) + 1 /\ SlowOn(stack', Top.path)
          /\ Top'.fn = "delete_files_in_folder" /\ Top'.path = Top.path
    /\ \A q \in Nodes : (FastOn(stack', q) /\ ~FastOn(stack, q)) =>
          \/ call.op = "none"
          \/ InFolder("next") /\ Top.entries # <<>> /\ Head(Top.entries) = q

\* C29 as stated: the fast path of delete_directory retries on every
\* condition delete_file and empty-directory removal treat as lock-class
\* (sharing violation, lock violation, generic "other") and never enters the
\* slow path from one; any other failure runs the slow path once and returns
\* its result without a further fast-path attempt.
C29_FastPathSharesLockClass ==
    [](FastPathState(is_io_error)) /\ [][FastPathStep(is_io_error)]_vars

RawLockCode(e) == e.raw \in {32, 33}

\* C29 amended: the fast path treats exactly os error 32 / 33 as lock-class
\* (retry cycle while the budget lasts, then the fast path again; never the
\* slow path); every other failure, the generic "other" kind included, runs
\* the slow path once, which replaces the fast path for that directory.
C29_FastPathLockClassIsOsError ==
    [](FastPathState(RawLockCode)) /\ [][FastPathStep(RawLockCode)]_vars

C29_Witness ==
    /\ stack # <<>> /\ Top.fn = "delete_directory" /\ Top.pc = "fallback"
    /\ Top.err = ErrOther /\ exists(Top.path)

EmptyOn(stk, p) ==
    \E i \in 1..Len(stk) : stk[i].fn = "delete_empty_directory" /\ stk[i].path = p

\* The loop of an entry returns to delete_files_in_folder.
EntryReturns ==
    /\ Len(stack) >= 2 /\ Top.fn \in LoopFns
    /\ stack[Len(stack) - 1].fn = "delete_files_in_folder"
    /\ Len(stack') < Len(stack)

\* C30: in the slow path the directory's own removal starts only when
\* delete_files_in_folder has gone through all listed entries, each deleted
\* with success; the first entry whose deletion fails ends the whole call
\* with that entry's error, with no removal attempted on the remaining
\* entries or on the directory.
C30_SlowPathEntriesFirst ==
    [][/\ \A q \in {"d", "d/s"} :
            (EmptyOn(stack', q) /\ ~EmptyOn(stack, q)) =>
                /\ InFolder("next") /\ Top.path = q /\ Top.entries = <<>>
                /\ SlowOn(stack, q) /\ fs' = fs
       /\ EntryReturns =>
            /\ done'.valid /\ done'.path = Head(stack[Len(stack) - 1].entries)
            /\ IF done'.res.ok
               THEN stack' = Append(SubSeq(stack, 1, Len(stack) - 2),
                                    [stack[Len(stack) - 1] EXCEPT
                                        !.pc = "next", !.entries = Tail(@)])
               ELSE /\ stack' = <<>> /\ result' = done'.res
                    /\ fs' = fs /\ ~Running']_vars

C30_Witness ==
    /\ call.path = "d" /\ result # NoResult /\ ~result.ok
    /\ done.valid /\ done.fn = "delete_file" /\ done.path = "d/a" /\ result = done.res
    /\ fs["d/a"] = "file" /\ fs["d/s"] = "dir" /\ fs["d"] = "dir" /\ stack = <<>>

\* The removal operation of a loop fits the kind of the entry it works on:
\* remove_file for a file, the recursive or the plain directory removal for a
\* directory, the plain directory removal for a link.
FitsClassification(fn, p) ==
    CASE fs[p] = "absent" -> TRUE
      [] fs[p] = "link" -> fn = "delete_empty_directory"
      [] fs[p] = "file" -> fn = "delete_file"
      [] OTHER -> fn \in {"delete_directory", "delete_empty_directory"}

\* C31: every removal attempt after the first of a loop uses the removal
\* operation that fits what the target is when that attempt starts, also when
\* another actor replaced the target (file by directory, directory by link or
\* file) since the attempt before.
C31_ClassificationPerAttempt ==
    [][(InLoop("attempt") /\ Top.attempt >= 2 /\ Top.attempt <= LoopBound /\ stack' # stack) =>
          FitsClassification(Top.fn, Top.path)]_vars

\* A removal attempt is being made, and the frame it leaves behind.
AttemptMade == InLoop("attempt") /\ Top.attempt <= LoopBound /\ stack' # stack
AfterAttempt == IF done'.valid THEN done' ELSE Top'

\* The attempts of the loops in fns start with the clearing call, the others
\* make none; the remove call follows whatever the clearing returned, on the
\* attributes the clearing left, and its outcome is the attempt's outcome.
ClearingPrecedes(fns) ==
    AttemptMade =>
        /\ Top.fn \in fns => AfterAttempt.marked \in {"ok", "err"}
        /\ Top.fn \notin fns => AfterAttempt.marked = "none"
        /\ \E o \in RemoveOutcomes(Top.fn, Top.path,
                       IF AfterAttempt.marked = "ok" THEN readonly \ {Top.path} ELSE readonly,
                       TRUE) :
              /\ fs' = o.fs /\ AfterAttempt.err = o.err
              /\ AfterAttempt.trace = Append(Top.trace, "attempt")

\* C32 as stated: every removal attempt of delete_file, of the directory fast
\* path and of empty-directory removal is immediately preceded by a
\* best-effort clearing of the read-only attribute whose failure neither
\* changes the attempt's outcome nor prevents the remove call.
C32_EveryAttemptClearsReadOnly == [][ClearingPrecedes(LoopFns)]_vars

\* C32 amended: the attempts of delete_file and of empty-directory removal
\* are immediately preceded by the best-effort clearing, and its failure
\* neither changes the outcome nor prevents the remove call; the attempts of
\* the directory fast path call the recursive removal with no clearing.
C32_FileAndEmptyDirectoryAttemptsClear ==
    [][ClearingPrecedes({"delete_file", "delete_empty_directory"})]_vars

C32_Witness ==
    /\ stack # <<>> /\ Top.fn = "delete_file" /\ Top.pc = "recheck"
    /\ Top.marked = "err" /\ Top.path \in readonly /\ Top.err = ErrAccess

\* C33 (the handle of the elevated child, sei.hProcess): once
\* relaunch_as_elevated has returned, on whatever path (failed launch, no
\* handle, failed wait, failed exit-code query, success), a handle it
\* obtained has been closed, and no handle is ever closed twice.
C33_HandlesClosedExactlyOnce ==
    /\ coord.closes <= 1
    /\ coord.hProcess = "closed" <=> coord.closes = 1
    /\ coord.pc \in {"report", "done"} => coord.hProcess # "open"

\* C34: when the process ids could be enumerated, every process running at
\* the start of the scan, other than process zero and the caller, is examined,
\* and it is reported when its working directory is readable and matches the
\* target, however many processes are running.
C34_EveryRunningProcessExamined ==
    (scan.op = "dir" /\ scan.pc = "done" /\ scan.pids # <<>>) =>
        \A p \in scan.running \ {IdlePid, SelfPid} :
            /\ p \in Range(scan.examined)
            /\ (p \notin scan.failed /\ cwd_matches(clean(scan.cwd[p]), clean(scan.target))) =>
                  p \in Range(scan.res.procs)

\* How a public call can end: success, an error no loop retries, or the
\* budget of the loop that returned last being spent.
TerminalOutcome ==
    \/ result.ok
    \/ result.tag = "notfound"
    \/ result.tag = "io" /\ ~done.valid /\ result.err = ErrNotFound
    \/ result.tag = "io" /\ done.valid /\ done.res = result
          /\ ~Retryable(done.fn, done.err)
    \/ result.tag = "io" /\ done.valid /\ done.res = result
          /\ Retryable(done.fn, done.err) /\ done.attempt = max_retries + 1
    \/ result.tag = "exhausted" /\ done.valid /\ done.attempt > max_retries + 1

\* C35: on the finite tree, with other actors only removing entries and
\* every outcome of remove, inspection and termination allowed, each call of
\* delete, delete_file and delete_directory returns; no loop makes more than
\* max_retries + 1 removal attempts, and the call ends in success, in a
\* non-retryable error or in budget exhaustion.
C35_EveryCallTerminates ==
    /\ [](/\ \A fr \in LoopFrames : Attempts(fr.trace) <= max_retries + 1
          /\ result # NoResult => stack = <<>> /\ TerminalOutcome)
    /\ (call.op # "none") ~> (result # NoResult)

C35_Witness ==
    /\ call.op = "delete_directory" /\ result = IoFailure(ErrSharing) /\ done.valid
    /\ done.fn = "delete_empty_directory" /\ Attempts(done.trace) = MaxRetriesBound + 1
    /\ fs["d/a"] = "absent" /\ fs["d"] = "dir"

\* A directory text without its trailing separator, and the test that the
\* directory c is the directory t or lies below it, component by component.
C36_Trim(t) == IF t # <<>> /\ t[Len(t)] = "\\" THEN SubSeq(t, 1, Len(t) - 1) ELSE t
C36_Within(c, t) ==
    \/ C36_Trim(C23_Key(c)) = C36_Trim(C23_Key(t))
    \/ IsPrefix(C36_Trim(C23_Key(t)) \o <<"\\">>, C23_Key(c))

\* C36: get_locking_processes_low_level returns only processes whose working
\* directory is the target directory or a descendant of it: never one whose
\* working directory is an ancestor of the target, nor one in another
\* directory whose name only starts with the target's text.
C36_OnlyWithinTarget ==
    (scan.op = "dir" /\ scan.pc = "done") =>
        \A i \in 1..Len(scan.res.procs) :
            C36_Within(scan.cwd[scan.res.procs[i]], scan.target)

\* C37: for every value of max_retries, the largest included, a loop that
\* returns has made at least one removal attempt, and a loop whose every
\* attempt failed with a sharing or lock violation on a target that kept
\* existing has made max_retries + 1 attempts.
C37_AttemptBoundNeverWraps ==
    (done.valid /\ done.fn \in LoopFns) =>
        /\ Attempts(done.trace) >= 1
        /\ done.res.tag # "panic"
        /\ done.allLock => Attempts(done.trace) = max_retries + 1

\* C38: every process the engine asks the OS to terminate is, when the
\* request is issued, the process the inspection of that retry cycle
\* reported: its id has not been given to another process since.
C38_KillsOnlyReportedProcesses ==
    [][(InLoop("kill") /\ stack' # stack) =>
          \A i \in 1..Len(Top'.req) : incarnation[Top'.req[i]] = Top.seen[Top'.req[i]]]_vars

\* C39: a delete command without --force that lists a target which does not
\* exist fails (exit code 1), whatever the order of the targets and whether
\* or not the command was relaunched elevated.
C39_MissingTargetFailsWithoutForce ==
    (/\ cli.cmd = "delete" /\ ~cli.force
     /\ \E i \in 1..Len(cli.files) : NaturalKind[cli.files[i]] = "absent"
     /\ cli.pc \in {"done", "exited"}) =>
        /\ ~cli.outcome.ok
        /\ cli.pc = "exited" => cli.exit = 1

\* C40: within one delete_directory call on a directory without entries, the
\* removal attempts made against that directory (those of the fast path plus
\* those of the empty-directory removal of the slow path) number at most
\* max_retries + 1.
C40_DirectoryAttemptsWithinBudget ==
    (/\ call.op = "delete_directory"
     /\ NaturalKind[call.path] = "dir" /\ Children(NaturalKind, call.path) = {}
     /\ stack # <<>> /\ Top.fn \in LoopFns /\ Top.path = call.path) =>
        Top.before + Attempts(Top.trace) <= max_retries + 1

\* C11: the coordinator invokes the action once and spawns at most one
\* elevated child, and only after a failure whose text reads
\* permission-related while the process is not elevated; when the action
\* succeeded or the process is elevated no child exists and the action's
\* result is returned unchanged.
C11_ActionOnceRelaunchAtMostOnce ==
    /\ coord.actions <= 1 /\ coord.spawns <= 1
    /\ coord.pc # "idle" => coord.actions = 1
    /\ child.state # "none" => coord.spawns = 1
    /\ coord.spawns = 1 =>
          /\ coord.action_result # NoResult /\ ~coord.action_result.ok
          /\ is_permission_error(coord.msg) /\ ~coord.elevated
    /\ (coord.pc = "done" /\ (coord.action_result.ok \/ coord.elevated)) =>
          /\ coord.spawns = 0 /\ child = NoChild /\ tmp = NoTmp
          /\ cli.outcome = Propagated(coord.action_result)

C11_Witness ==
    /\ coord.pc = "done" /\ coord.spawns = 1 /\ cli.outcome = Relaunched(FALSE, "child", 1)
    /\ coord.action_result = IoFailure(ErrAccess)

\* C12: only a permission-class failure of the deletion (access denied)
\* makes the coordinator relaunch; lock-class exhaustion, NotFound and other
\* I/O failures never do, whatever the OS message and the path text.
C12_OnlyPermissionFailuresRelaunch ==
    coord.pc \in {"launch", "wait", "report"} =>
        /\ coord.action_result.tag = "io"
        /\ coord.action_result.err.kind = "PermissionDenied"

\* C13: once the child's exit code is known the coordinator returns Ok for
\* zero and, for a non-zero code, prints the output file's lines to its
\* standard error and returns the failure carrying the code; in both cases
\* the output file is gone at the return.
C13_ChildOutcomeReported ==
    [][(coord.pc = "report" /\ coord'.pc # "report") =>
          /\ coord'.pc = "done" /\ cli'.pc = "done" /\ ~tmp'.exists /\ ~coord'.left_tmp
          /\ coord.code = 0 =>
                cli'.outcome = Relaunched(TRUE, "child", 0) /\ channel' = channel
          /\ coord.code # 0 =>
                /\ cli'.outcome = Relaunched(FALSE, "child", coord.code)
                /\ channel' = channel \o tmp.lines]_vars

C13_Witness ==
    /\ coord.pc = "done" /\ coord.code = 2 /\ cli.outcome = Relaunched(FALSE, "child", 2)
    /\ channel = <<"out">> /\ ~tmp.exists

\* C14: whenever the coordinator returns after a relaunch attempt, the
\* temporary output file does not exist.
C14_NoTempFileLeftBehind ==
    coord.pc = "done" => ~coord.left_tmp

\* C15: when the child exited non-zero, what the coordinator printed to its
\* standard error is everything the child wrote to its standard output and
\* its standard error.
C15_ChildOutputRelayed ==
    (coord.pc = "done" /\ coord.code \notin {-1, 0}) => channel = child.wrote

\* C16: with --disable-elevate the coordinator is never entered: no child,
\* no output file, and run returns the deletion's own result.
C16_DisableElevateNeverRelaunches ==
    (cli.cmd = "delete" /\ cli.disable_elevate) =>
        /\ coord = NoCoord /\ child = NoChild /\ tmp = NoTmp /\ channel = <<>>
        /\ cli.pc = "done" => cli.outcome = Propagated(result)

C16_Witness ==
    /\ cli.cmd = "delete" /\ cli.disable_elevate /\ cli.pc = "done"
    /\ cli.outcome = Propagated(IoFailure(ErrAccess))

\* C20: get_locks on a path that does not exist fails with FileNotFound
\* ("... No such file or directory") and calls no strategy; otherwise it calls
\* the directory strategy for a directory and the file strategy for anything
\* else.
C20_GetLocksDispatch ==
    cli.cmd = "list" =>
        LET p == cli.files[1]
            g == cli.listing
        IN IF ~exists(p)
           THEN /\ g.strategy = "none" /\ g.res = LockErr("FileNotFound")
                /\ SubSeq(g.msg, Len(g.msg) - 4, Len(g.msg))
                      = <<"No", "such", "file", "or", "directory">>
                /\ ~cli.outcome.ok
           ELSE g.strategy = IF is_dir(p) THEN "low_level" ELSE "restart_manager"

C20_Witness ==
    /\ cli.cmd = "list" /\ cli.files = <<"m">> /\ cli.listing.strategy = "none"
    /\ ~cli.outcome.ok
====
